---- MODULE Spec2Model ----
(***************************************************************************)
(* Model of the DCA grid trading bot: the committed database (BotConfig,   *)
(* DcaCycle and Order rows), the exchange's order book for the bot's       *)
(* account, the process-wide websocket registry and the supervisors        *)
(* (BinanceWebsocketManager) with their order loop and ticker loop.        *)
(*                                                                         *)
(* Representation.  Quote amounts and prices are integers in cents; base   *)
(* amounts are integers in units of 1/BaseScale coin; the exchange's       *)
(* amount precision is one Step of these units.  NULL ids are 0.  A        *)
(* nullable number is the empty tuple or a one-element tuple.              *)
(***************************************************************************)
EXTENDS Integers, Sequences, FiniteSets, TLC

\* ---------------------------------------------------------------- bounds
MaxXid == 4          \* exchange order ids handed out in one behaviour
MaxCycles == 2       \* DcaCycle rows created in one behaviour
MaxMgr == 2          \* supervisors constructed in one behaviour

\* ------------------------------------------------- representation scales
BaseScale == 10000   \* base units per coin
Step == 100          \* base units per amount-precision step

\* ------------------------------------------------------ the bot's config
TotalBudget == 10000        \* config.total_budget, cents
GridLevels == 2             \* config.safety_orders_count
GridLengthPct == 10         \* config.grid_length_pct
FirstOrderOffsetPct == 10   \* config.first_order_offset_pct
VolumeScalePct == 0         \* config.volume_scale_pct
GridShiftThresholdPct == 5  \* config.grid_shift_threshold_pct
TakeProfitBp == 120         \* config.take_profit_pct, basis points
MinNotional == 500          \* market.limits.cost.min, cents

\* ------------------------------------------------------ program constants
MIN_TRADING_AMOUNT == 1000  \* 10.0 USDT in cents
BALANCE_RESERVE_PCT == 99   \* 0.99 as a percentage

\* ------------------------------------------------- inputs (small domains)
Prices == {10000, 11000}             \* last prices the exchange reports
FreeQuotes == {500, 1000, 20000}     \* free USDT balances, cents
FeeInputs == {[currency |-> "BASE", cost |-> 3]}
AvailInputs == {"exact"}

NULL == 0

VARIABLES
  db,        \* committed database state
  exch,      \* exchange orders, indexed by exchange order id
  registry,  \* websocket_registry.managers[config_id]: supervisor id or NULL
  mgrs,      \* the supervisors constructed so far
  act,       \* history: the outcome of the operation the last step performed
  boot,      \* startup recovery of the config (bot_recovery)
  rec,       \* recover_all_active_bots: its loop over the active configs
  managers,  \* a registry of several configs with its detached stop tasks
  calc,      \* the last evaluation of a pure function: its inputs and result
  trail,     \* one OPEN cycle under ticker events and fills, with a clock
  recent_shift  \* history kept by ShiftSpec: a grid shift of the config
                \* committed less than 15 s ago

vars == <<db, exch, registry, mgrs, act, boot, rec, managers, calc, trail, recent_shift>>

\* the state of the bot proper, and the state of the parts studied on their own
core == <<db, exch, registry, mgrs, act>>
aside == <<boot, rec, managers, calc, trail, recent_shift>>

\* ------------------------------------------------------------ arithmetic
Max(a, b) == IF a >= b THEN a ELSE b
Abs(a) == IF a >= 0 THEN a ELSE -a

RECURSIVE Pow(_, _)
Pow(b, e) == IF e = 0 THEN 1 ELSE b * Pow(b, e - 1)

RECURSIVE SumTo(_, _)
SumTo(f, n) == IF n < 0 THEN 0 ELSE f[n] + SumTo(f, n - 1)

\* GridCalculator._truncate_to_precision: quantize ROUND_DOWN
TruncateToPrecision(amount) == (amount \div Step) * Step

\* TradingUtils.round_amount: exchange.amount_to_precision truncates
RoundAmount(amount) == (amount \div Step) * Step

\* TradingUtils.check_min_notional
CheckMinNotional(amount, price) ==
  IF MinNotional > 0 THEN (amount * price) \div BaseScale >= MinNotional ELSE TRUE

\* GridCalculator.calculate: rungs 0..N-1 as [index, price, amount_base]
GridCalculate(current_price, total_budget) ==
  LET first_price == (current_price * (100 - FirstOrderOffsetPct)) \div 100
      last_price  == (first_price * (100 - GridLengthPct)) \div 100
      price_step  == IF GridLevels <= 1 THEN 0
                     ELSE (first_price - last_price) \div (GridLevels - 1)
      num == [i \in 0..(GridLevels - 1) |->
                Pow(100 + VolumeScalePct, i) * Pow(100, GridLevels - 1 - i)]
      weights == SumTo(num, GridLevels - 1)
      volume(i) == (total_budget * num[i]) \div weights
      price(i) == first_price - i * price_step
  IN [i \in 0..(GridLevels - 1) |->
        [index |-> i,
         price |-> price(i),
         amount_base |-> TruncateToPrecision((volume(i) * BaseScale) \div price(i))]]

\* ------------------------------------------------------------- database
OpenCycles(d) == {c \in 1..Len(d.cycles) : d.cycles[c].status = "OPEN"}
RowByXid(d, x) == {o \in d.orders : o.xid = x}

NewCycle ==
  [status |-> "OPEN", total_base_qty |-> 0, total_quote_spent |-> 0,
   avg_price |-> 0, current_tp_order_id |-> NULL,
   initial_first_order_price |-> NULL, profit_usdt |-> <<>>,
   closed_at |-> FALSE, accumulated_dust |-> 0]

\* variant: the rows of a grid are added as ACTIVE before any of them is placed
GridRowsActive(grid, c, firstPk) ==
  {[pk |-> firstPk + i, cycle |-> c, xid |-> NULL, order_type |-> "BUY_SAFETY",
    order_index |-> i, price |-> grid[i].price, amount |-> grid[i].amount_base,
    status |-> "ACTIVE"] : i \in 0..(GridLevels - 1)}

\* the Order rows start_first_cycle / shift_grid add for a grid
GridRows(grid, c, firstPk) ==
  {[pk |-> firstPk + i, cycle |-> c, xid |-> NULL, order_type |-> "BUY_SAFETY",
    order_index |-> i, price |-> grid[i].price, amount |-> grid[i].amount_base,
    status |-> "PENDING"] : i \in 0..(GridLevels - 1)}

\* variant: every row from the first one on is marked ACTIVE
ActivateFrom(orders, pk, xid) ==
  {IF o.pk >= pk THEN [o EXCEPT !.xid = xid, !.status = "ACTIVE"] ELSE o : o \in orders}

\* first_order.binance_order_id = id; first_order.status = ACTIVE
Activate(orders, pk, xid) ==
  {IF o.pk = pk THEN [o EXCEPT !.xid = xid, !.status = "ACTIVE"] ELSE o : o \in orders}

\* variant: the pending state survives the rollback
RollbackKeeps(committed, pending) == pending

\* session.rollback(): the pending state is discarded
Rollback(committed, pending) == committed

\* session.commit(): the pending state becomes the committed state
Commit(committed, pending) == pending

\* ------------------------------------------------------------- exchange

\* exchange.create_order accepted: a new open order
ExCreate(ex, side, amount, price, cause) ==
  Append(ex, [side |-> side, status |-> "open", amount |-> amount,
              price |-> price, cause |-> cause, sent |-> 0, done |-> 0])

\* ----------------------------------------------------------- supervisors
\* a constructed supervisor whose run_forever has connected: _is_running, the
\* time of its last shift, its order loop (ev, opc, lock, synth) and its
\* ticker loop (tpc, tprice, tcycle, tsnap)
NewMgr ==
  [running |-> TRUE, throttled |-> FALSE,
   ev |-> NULL, again |-> FALSE, opc |-> "idle", lock |-> NULL, synth |-> NULL,
   tpc |-> "idle", tprice |-> 0, tcycle |-> NULL, tsnap |-> {}]

\* variant: stop leaves _is_running set
StopKeepsRunning(ms, m) == ms

\* BinanceWebsocketManager.stop
StopMgr(ms, m) ==
  [ms EXCEPT ![m].running = FALSE, ![m].throttled = FALSE]

\* ------------------------------------------------------- the fill event
\* BinanceWebsocketManager._process_order_as_trade: the dict handed to the handler
ProcessOrderAsTrade(ex, x, fee) ==
  LET filled_amount == ex[x].amount
      avg_price == ex[x].price
  IN [id |-> x, amount |-> filled_amount, price |-> avg_price,
      cost |-> (filled_amount * avg_price) \div BaseScale, fee |-> fee]

\* _handle_buy_fill, lines 81-113: the fee in base units
FeeQty(ev, row) ==
  IF ev.fee.currency = "BASE" THEN ev.fee.cost
  ELSE IF ev.fee.currency = "USDT"
       THEN (IF row.price > 0 THEN (ev.fee.cost * BaseScale) \div row.price ELSE 0)
       ELSE ev.amount \div 1000

\* exchange.fetch_free_balance()[base_asset] for the input class drawn
AvailableBase(class, expected) ==
  IF class = "zero" THEN 0
  ELSE IF class = "low" THEN (expected * 98) \div 100
  ELSE expected

\* _handle_buy_fill, lines 160-218: the amount to sell, or -1 when the handler returns
AmountToSell(available, expected) ==
  IF available <= 0 THEN -1
  ELSE IF expected > 0 /\ Abs(available - expected) * 100 > 5 * expected THEN -1
  ELSE IF expected > 0
       THEN (IF Abs(available - expected) * 1000 < expected THEN available
             ELSE IF available < expected THEN available
             ELSE expected)
       ELSE available

\* _handle_buy_fill, lines 253-272: effective take-profit in basis points
EffectiveTpBp(avg_price, total_quote_spent) ==
  LET max_precision_loss_usd == (Step * avg_price) \div BaseScale
      total_fees_usd == (total_quote_spent * 2) \div 1000
      total_overhead_usd == max_precision_loss_usd + total_fees_usd
      min_tp_bp == IF total_quote_spent > 0
                   THEN (total_overhead_usd * 10000) \div total_quote_spent
                   ELSE 50
      safe_tp_bp == (min_tp_bp * 3) \div 2
  IN Max(TakeProfitBp, safe_tp_bp)

\* _handle_buy_fill, lines 289-290: the rounded take-profit price
TpPrice(avg_price, total_quote_spent) ==
  (avg_price * (10000 + EffectiveTpBp(avg_price, total_quote_spent)) + 5000) \div 10000

\* the row the next-rung query of _handle_buy_fill returns (newest first), or {}
NextRung(d, c, next_index) ==
  LET cand == {o \in d.orders : o.cycle = c /\ o.order_index = next_index
                                  /\ o.order_type = "BUY_SAFETY"}
  IN {o \in cand : \A p \in cand : p.pk <= o.pk}

\* OrderHandler._handle_buy_fill followed by the commit of handle_filled_order,
\* or the rollback when the next rung's create_order raises
HandleBuyFill(d0, ex0, row, ev, in) ==
  LET c == row.cycle
      cyc == d0.cycles[c]
      net_qty == ev.amount - FeeQty(ev, row)
      new_base_qty == cyc.total_base_qty + net_qty
      new_quote_spent == cyc.total_quote_spent + ev.cost
      avg_price == IF new_base_qty > 0
                   THEN (new_quote_spent * BaseScale) \div new_base_qty ELSE 0
      cyc1 == [cyc EXCEPT !.total_base_qty = new_base_qty,
                          !.total_quote_spent = new_quote_spent,
                          !.avg_price = avg_price]
      old_tp == cyc.current_tp_order_id
      cancelled == /\ old_tp # NULL
                   /\ ex0[old_tp].status = "open"
                   /\ in.cancel_ok
      ex1 == IF cancelled THEN [ex0 EXCEPT ![old_tp].status = "canceled"] ELSE ex0
      orders1 == {IF o.pk = row.pk THEN [o EXCEPT !.status = "FILLED"]
                  ELSE IF cancelled /\ o.xid = old_tp
                       THEN [o EXCEPT !.status = "CANCELED"]
                       ELSE o : o \in d0.orders}
      amount_to_sell == AmountToSell(AvailableBase(in.avail, new_base_qty), new_base_qty)
      total_with_dust == amount_to_sell + cyc.accumulated_dust
      final_amount == (total_with_dust \div Step) * Step
      new_dust == total_with_dust - final_amount
      cyc2 == [cyc1 EXCEPT !.accumulated_dust = new_dust]
      safe_price == TpPrice(avg_price, new_quote_spent)
      tp_xid == Len(ex1) + 1
      ex2 == ExCreate(ex1, "sell", final_amount, safe_price, ev.id)
      cyc3 == [cyc2 EXCEPT !.current_tp_order_id = tp_xid]
      new_tp_order == [pk |-> d0.npk, cycle |-> c, xid |-> tp_xid,
                       order_type |-> "SELL_TP", order_index |-> -1,
                       price |-> safe_price, amount |-> final_amount,
                       status |-> "ACTIVE"]
      orders2 == orders1 \cup {new_tp_order}
      d2 == [d0 EXCEPT !.orders = orders2, !.npk = d0.npk + 1]
      next == NextRung(d2, c, row.order_index + 1)
      next_order == CHOOSE o \in next : TRUE
      next_safe_amount == RoundAmount(next_order.amount)
      next_xid == Len(ex2) + 1
      ex3 == ExCreate(ex2, "buy", next_safe_amount, next_order.price, ev.id)
      orders3 == Activate(orders2, next_order.pk, next_xid)
      early(cy, why) ==
        [db |-> Commit(d0, [d0 EXCEPT !.cycles[c] = cy, !.orders = orders1]),
         exch |-> ex1, raised |-> FALSE, tp |-> why]
  IN IF amount_to_sell <= 0 THEN early(cyc1, "tp_balance")
     ELSE IF final_amount <= 0 THEN early(cyc2, "tp_balance")
     ELSE IF ~CheckMinNotional(final_amount, safe_price) THEN early(cyc2, "tp_notional")
     ELSE IF ~in.tp_ok THEN early(cyc2, "tp_failed")
     ELSE IF next = {} \/ ~CheckMinNotional(next_safe_amount, next_order.price)
          THEN [db |-> Commit(d0, [d2 EXCEPT !.cycles[c] = cyc3]),
                exch |-> ex2, raised |-> FALSE, tp |-> "-"]
     ELSE IF ~in.next_ok
          THEN [db |-> Rollback(d0, [d2 EXCEPT !.cycles[c] = cyc3]),
                exch |-> ex2, raised |-> TRUE, tp |-> "-",
                pending |-> [d2 EXCEPT !.cycles[c] = cyc3]]
     ELSE [db |-> Commit(d0, [d2 EXCEPT !.cycles[c] = cyc3, !.orders = orders3]),
           exch |-> ex3, raised |-> FALSE, tp |-> "-"]

\* OrderHandler._handle_tp_fill up to its commit (lines 402-484)
HandleTpFill(d0, ex0, row, ev, in) ==
  LET c == row.cycle
      cyc == d0.cycles[c]
      known == row \in d0.orders
      base == IF known THEN d0.orders ELSE d0.orders \cup {row}
      active == {o \in base : o.cycle = c /\ o.status = "ACTIVE" /\ o.pk # row.pk}
      gone == {o \in active : o.xid # NULL /\ ex0[o.xid].status = "open" /\ in.cancel_ok}
      ex1 == [x \in 1..Len(ex0) |->
                IF \E o \in gone : o.xid = x
                THEN [ex0[x] EXCEPT !.status = "canceled"] ELSE ex0[x]]
      orders1 == {IF o.pk = row.pk THEN [o EXCEPT !.status = "FILLED"]
                  ELSE IF o \in gone THEN [o EXCEPT !.status = "CANCELED"]
                  ELSE o : o \in base}
      base_cost == IF ev.cost = 0 THEN (ev.price * ev.amount) \div BaseScale ELSE ev.cost
      fee_cost == IF ev.fee.currency = "USDT" THEN ev.fee.cost ELSE base_cost \div 1000
      profit == (base_cost - fee_cost) - cyc.total_quote_spent
      cyc1 == [cyc EXCEPT !.status = "CLOSED", !.closed_at = TRUE,
                          !.accumulated_dust = 0, !.profit_usdt = <<profit>>]
  IN [db |-> Commit(d0, [d0 EXCEPT !.cycles[c] = cyc1, !.orders = orders1,
                                   !.npk = IF known THEN d0.npk ELSE d0.npk + 1]),
      exch |-> ex1, raised |-> FALSE]

\* ------------------------------------------------ starting a cycle
\* BotManager._setup_websocket: stop and remove the registered supervisor,
\* construct a new one, register it and schedule its run_forever
SetupWebsocket(reg, ms) ==
  LET ms1 == IF reg # NULL THEN StopMgr(ms, reg) ELSE ms
  IN [mgrs |-> Append(ms1, NewMgr), registry |-> Len(ms) + 1]

\* BotManager.start_first_cycle, lines 38-45
EffectiveBudget(free_usdt) ==
  IF TotalBudget > free_usdt THEN (free_usdt * BALANCE_RESERVE_PCT) \div 100
  ELSE TotalBudget

\* BotManager.start_first_cycle, lines 71-130: the rows of the new cycle, the
\* first order and the commit, or the rollback when a step raises
StartPlace(d, ex, ctx, accepted) ==
  LET grid == GridCalculate(ctx.price, ctx.budget)
      c == Len(d.cycles) + 1
      rows == GridRows(grid, c, d.npk)
      new_cycle == [NewCycle EXCEPT !.initial_first_order_price = grid[0].price]
      pending == [d EXCEPT !.cycles = Append(@, new_cycle),
                           !.orders = @ \cup rows,
                           !.npk = @ + GridLevels]
      safe_amount == RoundAmount(grid[0].amount_base)
      safe_price == grid[0].price
      xid == Len(ex) + 1
      placed == [pending EXCEPT !.orders = Activate(pending.orders, d.npk, xid),
                                !.active = TRUE]
  IN IF ~CheckMinNotional(safe_amount, safe_price)
     THEN [db |-> Rollback(d, pending), exch |-> ex, result |-> "notional"]
     ELSE IF ~accepted
          THEN [db |-> Rollback(d, pending), exch |-> ex, result |-> "exchange"]
          ELSE [db |-> Commit(d, placed),
                exch |-> ExCreate(ex, "buy", safe_amount, safe_price, NULL),
                result |-> "ok"]

\* ------------------------------------------------------- shifting the grid
\* BotManager._cancel_pending_orders, lines 236-244: the rows the session loads
CancelPendingSelect(d, c) ==
  {[pk |-> o.pk, xid |-> o.xid] :
     o \in {r \in d.orders : r.cycle = c /\ r.order_type = "BUY_SAFETY"
                               /\ r.status \in {"PENDING", "PARTIAL", "ACTIVE"}}}

\* variant: no row is deleted
DeleteNothing(orders, c) == orders

\* BotManager._delete_unfilled_orders
DeleteUnfilledOrders(orders, c) ==
  {o \in orders : ~(o.cycle = c /\ o.order_type = "BUY_SAFETY" /\ o.status # "FILLED")}

\* BotManager.shift_grid from the cancels on the exchange to commit or rollback
ShiftGrid(d, ex, snap, c, current_price, cancel_ok, accepted) ==
  LET ex1 == [x \in 1..Len(ex) |->
                IF cancel_ok /\ ex[x].status = "open" /\ (\E s \in snap : s.xid = x)
                THEN [ex[x] EXCEPT !.status = "canceled"] ELSE ex[x]]
      stale == \E s \in snap : ~(\E o \in d.orders : o.pk = s.pk)
      orders1 == {IF \E s \in snap : s.pk = o.pk
                  THEN [o EXCEPT !.status = "CANCELED", !.xid = NULL]
                  ELSE o : o \in d.orders}
      orders2 == DeleteUnfilledOrders(orders1, c)
      grid == GridCalculate(current_price, TotalBudget)
      rows == GridRows(grid, c, d.npk)
      pending == [d EXCEPT !.orders = orders2 \cup rows, !.npk = @ + GridLevels]
      safe_amount == RoundAmount(grid[0].amount_base)
      safe_price == grid[0].price
      xid == Len(ex1) + 1
      placed == [pending EXCEPT !.orders = Activate(pending.orders, d.npk, xid),
                                !.cycles[c].initial_first_order_price = safe_price]
  IN IF stale \/ ~CheckMinNotional(safe_amount, safe_price) \/ ~accepted
     THEN [db |-> Rollback(d, pending), exch |-> ex1, ok |-> FALSE]
     ELSE [db |-> Commit(d, placed),
           exch |-> ExCreate(ex1, "buy", safe_amount, safe_price, NULL),
           ok |-> TRUE]

\* BinanceWebsocketManager._check_grid_shift, lines 213-247: the cycle to shift, or {}
ShiftCandidates(d, current_price) ==
  LET open == OpenCycles(d)
      first(c) == {o \in d.orders : o.cycle = c /\ o.order_index = 0
                                      /\ o.order_type = "BUY_SAFETY"}
      ref(c) == LET f == CHOOSE o \in first(c) : TRUE
                IN IF d.cycles[c].initial_first_order_price # NULL
                   THEN d.cycles[c].initial_first_order_price ELSE f.price
      ideal_entry_price == (current_price * (100 - FirstOrderOffsetPct)) \div 100
  IN {c \in open :
        /\ Cardinality(open) = 1
        /\ Cardinality(first(c)) = 1
        /\ \A o \in first(c) : o.status # "FILLED"
        /\ (ideal_entry_price - ref(c)) * 100 >= GridShiftThresholdPct * ref(c)}

\* the rows locked FOR UPDATE by fill handlers other than supervisor m's
LockedByOthers(ms, m) ==
  {ms[k].lock : k \in {j \in 1..Len(ms) : j # m /\ ms[j].opc = "locked"}} \ {NULL}

\* --------------------------------------------------------------- history
Init ==
  /\ db = [active |-> FALSE, cycles |-> <<>>, orders |-> {}, npk |-> 1]
  /\ exch = <<>>
  /\ registry = NULL
  /\ mgrs = <<>>
  /\ act = "init"
  /\ boot = NULL /\ rec = NULL /\ managers = NULL /\ calc = NULL /\ trail = NULL /\ recent_shift = FALSE

Mgrs == 1..Len(mgrs)

\* ---------------------------------------------------------------- exchange
\* the exchange fills an open order completely
ExFill(x) ==
  /\ x \in 1..Len(exch)
  /\ exch[x].status = "open"
  /\ exch' = [exch EXCEPT ![x].status = "closed"]
  /\ act' = "-"
  /\ UNCHANGED <<db, registry, mgrs>>
  /\ UNCHANGED aside

\* ------------------------------------------------------------ HTTP routes
\* start_bot: BotManager.start_first_cycle and the route's own commit
HttpStart(free_usdt, price, accepted) ==
  /\ IF free_usdt < MIN_TRADING_AMOUNT
     THEN /\ db' = Rollback(db, db)
          /\ act' = "start_fail_balance"
          /\ UNCHANGED <<exch, registry, mgrs>>
     ELSE /\ Len(mgrs) < MaxMgr
          /\ Len(db.cycles) < MaxCycles
          /\ Len(exch) < MaxXid
          /\ LET ws == SetupWebsocket(registry, mgrs)
                 r == StartPlace(db, exch, [price |-> price,
                                            budget |-> EffectiveBudget(free_usdt)], accepted)
             IN /\ mgrs' = ws.mgrs
                /\ registry' = ws.registry
                /\ db' = r.db
                /\ exch' = r.exch
                /\ act' = IF r.result = "ok" THEN "start_ok"
                          ELSE IF r.result = "notional" THEN "start_fail_notional"
                          ELSE "start_fail_exchange"
  /\ UNCHANGED aside

\* stop_bot: 404 when the registry has no supervisor for the config, else
\* stop, remove, is_active = False and commit
HttpStop ==
  /\ IF registry = NULL
     THEN /\ act' = "stop_not_found"
          /\ UNCHANGED <<db, exch, registry, mgrs>>
     ELSE /\ mgrs' = StopMgr(mgrs, registry)
          /\ registry' = NULL
          /\ db' = [db EXCEPT !.active = FALSE]
          /\ act' = "stop_ok"
          /\ UNCHANGED exch
  /\ UNCHANGED aside

\* ------------------------------------------------------------ supervisor
\* handle_filled_order, lines 28-62, once the row lock is free: row lookup by
\* exchange id, fallback to current_tp_order_id, FILLED guard
Lookup(ms, d, m, x, again) ==
  LET rows == RowByXid(d, x)
      tps == {c \in 1..Len(d.cycles) : d.cycles[c].current_tp_order_id = x}
      skip == [ms EXCEPT ![m].opc = "idle", ![m].ev = NULL, ![m].again = FALSE]
  IN IF rows # {}
     THEN LET row == CHOOSE o \in rows : TRUE
          IN IF row.status = "FILLED" THEN skip
             ELSE [ms EXCEPT ![m].opc = "locked", ![m].ev = x, ![m].lock = row.pk,
                             ![m].again = again]
     ELSE IF Cardinality(tps) = 1
          THEN [ms EXCEPT ![m].opc = "locked", ![m].ev = x, ![m].again = again,
                          ![m].synth = CHOOSE c \in tps : TRUE]
          ELSE skip

\* the rows of event x that another handler's transaction has locked
Contended(ms, d, m, x) ==
  {o \in RowByXid(d, x) : o.pk \in LockedByOthers(ms, m)}

\* _watch_orders_loop -> _process_order_as_trade -> handle_filled_order:
\* watch_orders returns the update of filled order x
OrdersReceive(m, x) ==
  /\ m \in Mgrs
  /\ mgrs[m].running
  /\ mgrs[m].opc = "idle"
  /\ x \in 1..Len(exch) /\ exch[x].status = "closed"
  /\ IF Contended(mgrs, db, m, x) # {}
     THEN /\ mgrs' = [mgrs EXCEPT ![m].opc = "waiting", ![m].ev = x]
          /\ exch' = [exch EXCEPT ![x].sent = 2]
     ELSE /\ mgrs' = Lookup(mgrs, db, m, x,
                            exch[x].sent > 0 /\ \A k \in Mgrs : mgrs[k].ev # x)
          /\ exch' = [exch EXCEPT ![x].sent = Max(@, 1)]
  /\ act' = "-"
  /\ UNCHANGED <<db, registry>>
  /\ UNCHANGED aside

\* the SELECT ... FOR UPDATE of a waiting handler returns
HBegin(m) ==
  /\ m \in Mgrs
  /\ mgrs[m].opc = "waiting"
  /\ Contended(mgrs, db, m, mgrs[m].ev) = {}
  /\ mgrs' = Lookup(mgrs, db, m, mgrs[m].ev, FALSE)
  /\ act' = "-"
  /\ UNCHANGED <<db, exch, registry>>
  /\ UNCHANGED aside

\* history: one more handler has committed its processing of fill x
Handled(ex, x) == [ex EXCEPT ![x].done = @ + 1]

\* the row a locked handler works on
HandlerRow(m) ==
  IF mgrs[m].lock # NULL
  THEN CHOOSE o \in db.orders : o.pk = mgrs[m].lock
  ELSE LET x == mgrs[m].ev
       IN [pk |-> db.npk, cycle |-> mgrs[m].synth, xid |-> x, order_type |-> "SELL_TP",
           order_index |-> -1, price |-> exch[x].price, amount |-> exch[x].amount,
           status |-> "ACTIVE"]

\* the primary keys of the committed rows that d changes or deletes
Written(d) ==
  {o.pk : o \in {p \in db.orders : p \notin d.orders}}

HandlerInputs ==
  [fee : FeeInputs, avail : AvailInputs, cancel_ok : BOOLEAN,
   tp_ok : BOOLEAN, next_ok : BOOLEAN]

\* handle_filled_order, lines 64-72, for a BUY_SAFETY row
HBuyFinish(m, in) ==
  /\ m \in Mgrs
  /\ mgrs[m].opc = "locked"
  /\ HandlerRow(m).order_type = "BUY_SAFETY"
  /\ LET row == HandlerRow(m)
         x == mgrs[m].ev
         r == HandleBuyFill(db, exch, row, ProcessOrderAsTrade(exch, x, in.fee), in)
     IN /\ Len(r.exch) <= MaxXid
        /\ Written(r.db) \cap LockedByOthers(mgrs, m) = {}
        /\ db' = r.db
        /\ exch' = IF r.raised THEN r.exch ELSE Handled(r.exch, x)
        /\ mgrs' = [mgrs EXCEPT ![m].opc = "idle", ![m].lock = NULL, ![m].ev = NULL,
                                ![m].again = FALSE]
        /\ act' = r.tp
  /\ UNCHANGED registry
  /\ UNCHANGED aside

\* handle_filled_order -> _handle_tp_fill up to its commit at line 484
HTpFinish(m, fee, cancel_ok) ==
  /\ m \in Mgrs
  /\ mgrs[m].opc = "locked"
  /\ HandlerRow(m).order_type = "SELL_TP"
  /\ LET row == HandlerRow(m)
         x == mgrs[m].ev
         r == HandleTpFill(db, exch, row, ProcessOrderAsTrade(exch, x, fee),
                           [cancel_ok |-> cancel_ok])
     IN /\ Written(r.db) \cap LockedByOthers(mgrs, m) = {}
        /\ db' = r.db
        /\ exch' = Handled(r.exch, x)
        /\ mgrs' = [mgrs EXCEPT ![m].opc = "restart", ![m].lock = NULL, ![m].synth = NULL,
                                ![m].again = FALSE]
        /\ act' = "-"
  /\ UNCHANGED registry
  /\ UNCHANGED aside

\* _handle_tp_fill, lines 485-494: stop and remove the registered supervisor,
\* then start_first_cycle
HRestart(m, free_usdt, price, accepted) ==
  /\ m \in Mgrs
  /\ mgrs[m].opc = "restart"
  /\ LET ms1 == IF registry # NULL THEN StopMgr(mgrs, registry) ELSE mgrs
         ms2 == [ms1 EXCEPT ![m].opc = "idle", ![m].ev = NULL]
     IN IF free_usdt < MIN_TRADING_AMOUNT
        THEN /\ mgrs' = ms2
             /\ registry' = NULL
             /\ db' = Rollback(db, db)
             /\ exch' = exch
             /\ act' = "restart_fail"
        ELSE /\ Len(mgrs) < MaxMgr
             /\ Len(db.cycles) < MaxCycles
             /\ Len(exch) < MaxXid
             /\ LET ws == SetupWebsocket(NULL, ms2)
                    r == StartPlace(db, exch,
                                    [price |-> price,
                                     budget |-> EffectiveBudget(free_usdt)], accepted)
                IN /\ mgrs' = ws.mgrs
                   /\ registry' = ws.registry
                   /\ db' = r.db
                   /\ exch' = r.exch
                   /\ act' = IF r.result = "ok" THEN "restart_ok" ELSE "restart_fail"
  /\ UNCHANGED aside

\* _watch_price_loop -> _check_grid_shift, lines 202-253: the throttle, the
\* OPEN cycle, its rung 0 and the decision to shift
TickCheck(m, price) ==
  /\ m \in Mgrs
  /\ mgrs[m].running
  /\ mgrs[m].tpc = "idle"
  /\ ~mgrs[m].throttled
  /\ ShiftCandidates(db, price) # {}
  /\ mgrs' = [mgrs EXCEPT ![m].tpc = "decided", ![m].tprice = price,
                          ![m].tcycle = CHOOSE k \in ShiftCandidates(db, price) : TRUE]
  /\ act' = "-"
  /\ UNCHANGED <<db, exch, registry>>
  /\ UNCHANGED aside

\* shift_grid -> _cancel_pending_orders, lines 236-244: the rows the session loads
ShiftSelect(m) ==
  /\ m \in Mgrs
  /\ mgrs[m].tpc = "decided"
  /\ mgrs' = [mgrs EXCEPT ![m].tpc = "selected",
                          ![m].tsnap = CancelPendingSelect(db, mgrs[m].tcycle)]
  /\ act' = "-"
  /\ UNCHANGED <<db, exch, registry>>
  /\ UNCHANGED aside

\* shift_grid from the cancels of lines 246-263 to its commit or rollback
ShiftApply(m, cancel_ok, accepted) ==
  /\ m \in Mgrs
  /\ mgrs[m].tpc = "selected"
  /\ Len(exch) < MaxXid
  /\ LET c == mgrs[m].tcycle
         r == ShiftGrid(db, exch, mgrs[m].tsnap, c, mgrs[m].tprice, cancel_ok, accepted)
         held == {mgrs[k].lock : k \in {j \in Mgrs : mgrs[j].opc = "locked"}}
     IN /\ ({s.pk : s \in mgrs[m].tsnap} \cup Written(r.db)) \cap held = {}
        /\ db' = r.db
        /\ exch' = r.exch
        /\ mgrs' = [mgrs EXCEPT ![m].tpc = "idle", ![m].tsnap = {}, ![m].tcycle = NULL,
                                ![m].tprice = 0,
                                ![m].throttled = r.ok /\ mgrs[m].running]
        /\ act' = IF r.ok THEN "shift_commit" ELSE "-"
  /\ UNCHANGED registry
  /\ UNCHANGED aside

\* 15 seconds pass since the supervisor's last shift
TimePasses(m) ==
  /\ m \in Mgrs
  /\ mgrs[m].throttled
  /\ mgrs' = [mgrs EXCEPT ![m].throttled = FALSE]
  /\ act' = "-"
  /\ UNCHANGED <<db, exch, registry>>
  /\ UNCHANGED aside

Next ==
  \/ \E x \in 1..MaxXid : ExFill(x)
  \/ \E f \in FreeQuotes, p \in Prices, a \in BOOLEAN : HttpStart(f, p, a)
  \/ HttpStop
  \/ \E m \in 1..MaxMgr, x \in 1..MaxXid : OrdersReceive(m, x)
  \/ \E m \in 1..MaxMgr : HBegin(m)
  \/ \E m \in 1..MaxMgr, in \in HandlerInputs : HBuyFinish(m, in)
  \/ \E m \in 1..MaxMgr, f \in FeeInputs, c \in BOOLEAN : HTpFinish(m, f, c)
  \/ \E m \in 1..MaxMgr, f \in FreeQuotes, p \in Prices, a \in BOOLEAN : HRestart(m, f, p, a)
  \/ \E m \in 1..MaxMgr, p \in Prices : TickCheck(m, p)
  \/ \E m \in 1..MaxMgr : ShiftSelect(m)
  \/ \E m \in 1..MaxMgr, c \in BOOLEAN, a \in BOOLEAN : ShiftApply(m, c, a)
  \/ \E m \in 1..MaxMgr : TimePasses(m)

Spec == Init /\ [][Next]_vars

\* =================================================================== claims
Cycles == 1..Len(db.cycles)
ActiveOf(c, type) ==
  {o \in db.orders : o.cycle = c /\ o.order_type = type /\ o.status = "ACTIVE"}
PlacedFor(x, side) ==
  {y \in 1..Len(exch) : exch[y].cause = x /\ exch[y].side = side}

\* C1: when a fill is delivered again after an earlier delivery of it has
\* ended, the handler of the second delivery leaves the committed database as
\* it is and places no order on the exchange.
C1_SecondDeliveryChangesNothing ==
  [][\A m \in DOMAIN mgrs :
       (mgrs[m].again /\ ~mgrs'[m].again) => (db' = db /\ Len(exch') = Len(exch))]_vars

\* C2: in every committed state the config has at most one OPEN cycle.
C2_OneOpenCycle == Cardinality(OpenCycles(db)) <= 1

\* C3: in every committed state each cycle has at most one ACTIVE SELL_TP row.
C3_OneActiveTp == \A c \in Cycles : Cardinality(ActiveOf(c, "SELL_TP")) <= 1

\* C4: an Order row committed as FILLED is still there, and still FILLED,
\* after every step.
C4_FilledIsFinal ==
  [][\A o \in db.orders :
       o.status = "FILLED" => \E p \in db'.orders : p.pk = o.pk /\ p.status = "FILLED"]_vars

\* C5: in every committed state each cycle has at most one ACTIVE BUY_SAFETY
\* row; an ACTIVE rung k > 0 has a FILLED rung k-1 in its cycle; and the state a
\* grid shift commits has the new rung 0 as the only ACTIVE rung of its cycle.
C5_OneActiveRung ==
  /\ \A c \in Cycles :
       /\ Cardinality(ActiveOf(c, "BUY_SAFETY")) <= 1
       /\ \A o \in ActiveOf(c, "BUY_SAFETY") :
            o.order_index > 0 =>
              \E p \in db.orders : /\ p.cycle = c /\ p.order_type = "BUY_SAFETY"
                                   /\ p.order_index = o.order_index - 1
                                   /\ p.status = "FILLED"
  /\ act = "shift_commit" =>
       \E c \in Cycles : \E o \in db.orders :
          /\ o.pk = db.npk - GridLevels /\ o.cycle = c /\ o.order_index = 0
          /\ ActiveOf(c, "BUY_SAFETY") = {o}

\* C5 witness: a shift has committed in a cycle in which a fill had been
\* handled, and the cycle has its ACTIVE rung.
C5_ShiftAfterFill ==
  /\ act = "shift_commit"
  /\ \E c \in Cycles : /\ db.cycles[c].total_base_qty > 0
                       /\ Cardinality(ActiveOf(c, "BUY_SAFETY")) = 1

\* C6: for a fill delivered to a second handler while a first one held its
\* row, at most one handler commits the fill (the totals are incremented at
\* most once), and at most one SELL_TP and one next rung are placed for it.
C6_ConcurrentFillOnce ==
  \A x \in 1..Len(exch) :
     exch[x].sent = 2 =>
       /\ exch[x].done <= 1
       /\ Cardinality(PlacedFor(x, "sell")) <= 1
       /\ Cardinality(PlacedFor(x, "buy")) <= 1

StartFailures ==
  {"start_fail_balance", "start_fail_notional", "start_fail_exchange", "restart_fail"}

\* C7: a step in which start_first_cycle fails leaves the committed database
\* unchanged: no Cycle row, no Order row, is_active as before.
C7_FailedStartChangesNothing ==
  [][act' \in StartFailures => db' = db]_vars

\* C7 witness: the exchange has rejected the first order of a config that was
\* never active: its supervisor is registered and the database is empty.
C7_FailedStart ==
  /\ act = "start_fail_exchange"
  /\ registry # NULL
  /\ ~db.active /\ db.cycles = <<>> /\ db.orders = {}

\* the newest cycle is OPEN, its rung 0 is ACTIVE and open on the exchange, the
\* registered supervisor runs and no other supervisor does
NewCycleRunning ==
  /\ registry # NULL /\ mgrs[registry].running
  /\ \A k \in DOMAIN mgrs : k # registry => ~mgrs[k].running
  /\ db.cycles # <<>>
  /\ LET c == Len(db.cycles)
     IN /\ db.cycles[c].status = "OPEN"
        /\ \E o \in ActiveOf(c, "BUY_SAFETY") :
             /\ o.order_index = 0
             /\ o.xid # NULL /\ exch[o.xid].status = "open" /\ exch[o.xid].side = "buy"

C9_ClosedCycle ==
  \A c \in Cycles :
     db.cycles[c].status = "CLOSED" =>
       /\ db.cycles[c].closed_at
       /\ db.cycles[c].profit_usdt # <<>>
       /\ db.cycles[c].accumulated_dust = 0

\* C10: a supervisor on which stop() has been invoked takes no step of its
\* order loop or ticker loop that changes the database or places an order on
\* the exchange, and does not run again.
C10_StoppedIsInert ==
  [][\A m \in DOMAIN mgrs :
       ~mgrs[m].running =>
         /\ ~mgrs'[m].running
         /\ (mgrs'[m].opc # mgrs[m].opc \/ mgrs'[m].tpc # mgrs[m].tpc)
              => (db' = db /\ Len(exch') = Len(exch))]_vars

StopOutcomes == {"stop_ok", "stop_not_found"}

\* C11: a stop invoked right after a successful stop succeeds again without
\* error and leaves the supervisor stopped, the registry without an entry and
\* is_active false, exactly as the first stop left them.
C11_StopIsIdempotent ==
  [][(act = "stop_ok" /\ act' \in StopOutcomes)
       => (act' = "stop_ok" /\ db' = db /\ registry' = registry /\ mgrs' = mgrs)]_vars

\* ============================================ recover_all_active_bots
\* The loop of BotRecoveryService.recover_all_active_bots over the configs
\* found active at startup.  What _recover_single_bot does for one config is
\* an input here: it returns, it raises with the session's objects loaded, or
\* it raises after start_first_cycle has rolled the session back (the missed
\* SELL_TP fill whose restart fails), which leaves every object of the
\* session, the configs included, expired.
NConfigs == 3

RecoverOutcomes == {"ok", "raise", "raise_rolled_back"}

\* the values every other part keeps while one part is studied on its own
CoreIdle ==
  /\ db = [active |-> FALSE, cycles |-> <<>>, orders |-> {}, npk |-> 1]
  /\ exch = <<>>
  /\ registry = NULL
  /\ mgrs = <<>>
  /\ act = "init"

RecInit ==
  /\ CoreIdle
  /\ boot = NULL /\ managers = NULL /\ calc = NULL /\ trail = NULL /\ recent_shift = FALSE
  /\ \E a \in [1..NConfigs -> BOOLEAN] :
       rec = [pc |-> "start", is_active |-> a, active_configs |-> <<>>, i |-> 0,
              recovered_count |-> 0, failed_count |-> 0, failed |-> {},
              at_startup |-> Cardinality({c \in 1..NConfigs : a[c]})]

\* the configs with is_active, in primary-key order
RECURSIVE FindActiveConfigs(_, _)
FindActiveConfigs(a, n) ==
  IF n = 0 THEN <<>>
  ELSE IF a[n] THEN Append(FindActiveConfigs(a, n - 1), n)
       ELSE FindActiveConfigs(a, n - 1)

\* recover_all_active_bots, lines 42-49
RecFind ==
  /\ rec.pc = "start"
  /\ LET found == FindActiveConfigs(rec.is_active, NConfigs)
     IN rec' = [rec EXCEPT !.active_configs = found,
                           !.i = 1,
                           !.pc = IF found = <<>> THEN "returned" ELSE "loop"]
  /\ UNCHANGED <<core, boot, managers, calc, trail, recent_shift>>

\* recover_all_active_bots, lines 55-70: the except handler of one config.
\* Its first statement formats config.id: on an expired object under an
\* AsyncSession that raises, the handler is left, and the outer except of
\* lines 88-90 returns the statistics.
HandleFailure(r, config, outcome, commit_ok) ==
  IF outcome = "raise_rolled_back"
  THEN [r EXCEPT !.pc = "returned"]
  ELSE [r EXCEPT !.failed_count = @ + 1,
                 !.failed = @ \cup {config},
                 !.is_active[config] = IF commit_ok THEN FALSE ELSE @,
                 !.i = @ + 1]

\* recover_all_active_bots, lines 51-70: one iteration of the loop
RecOne(outcome, commit_ok) ==
  /\ rec.pc = "loop"
  /\ rec.i <= Len(rec.active_configs)
  /\ LET config == rec.active_configs[rec.i]
     IN rec' = IF outcome = "ok"
               THEN [rec EXCEPT !.recovered_count = @ + 1, !.i = @ + 1]
               ELSE HandleFailure(rec, config, outcome, commit_ok)
  /\ UNCHANGED <<core, boot, managers, calc, trail, recent_shift>>

\* recover_all_active_bots, lines 72-86: the loop has ended
RecReturn ==
  /\ rec.pc = "loop"
  /\ rec.i > Len(rec.active_configs)
  /\ rec' = [rec EXCEPT !.pc = "returned"]
  /\ UNCHANGED <<core, boot, managers, calc, trail, recent_shift>>

RecNext ==
  \/ RecFind
  \/ \E o \in RecoverOutcomes, c \in BOOLEAN : RecOne(o, c)
  \/ RecReturn

RecSpec == RecInit /\ [][RecNext]_vars

\* C12: when recover_all_active_bots has returned, recovered + failed is the
\* number of configs that were active at startup, and every config counted as
\* failed has is_active = false.
C12_EveryConfigCounted ==
  rec.pc = "returned" =>
     /\ rec.recovered_count + rec.failed_count = rec.at_startup
     /\ \A c \in rec.failed : ~rec.is_active[c]

\* ================================================ recovery of one config
\* BotRecoveryService._recover_single_bot for the bot's config after a process
\* restart: the registry is empty and no supervisor exists; the database and
\* the exchange are as the bot left them, except for the orders that were
\* filled or canceled on the exchange during the downtime.

StartupPrice == 10000
StartupFee == [currency |-> "BASE", cost |-> 3]
AllOk == [fee |-> StartupFee, avail |-> "exact", cancel_ok |-> TRUE,
          tp_ok |-> TRUE, next_ok |-> TRUE]

\* the process before the crash has not started the bot yet
BootInit ==
  /\ CoreIdle
  /\ boot = [pc |-> "up", sess |-> db, cycle |-> NULL, todo |-> {}, map |-> {}, cur |-> NULL,
             one_buy |-> FALSE, expired |-> FALSE, fresh |-> FALSE, missed |-> {}, live |-> <<>>]
  /\ rec = NULL /\ managers = NULL /\ calc = NULL /\ trail = NULL /\ recent_shift = FALSE

\* before the crash: start_bot has started the first cycle
UpStart ==
  /\ boot.pc = "up"
  /\ db.cycles = <<>>
  /\ LET r == StartPlace(db, exch, [price |-> StartupPrice, budget |-> TotalBudget], TRUE)
     IN /\ db' = r.db
        /\ exch' = r.exch
  /\ act' = "-"
  /\ UNCHANGED <<registry, mgrs, aside>>

\* before the crash: open order x has filled and its fill was handled; after
\* the SELL_TP's fill the restart has failed, and the config is active
\* without an OPEN cycle
UpFill(x) ==
  /\ boot.pc = "up"
  /\ x \in 1..Len(exch) /\ exch[x].status = "open"
  /\ OpenCycles(db) # {}
  /\ LET ex == [exch EXCEPT ![x].status = "closed"]
         row == CHOOSE o \in db.orders : o.xid = x
         ev == ProcessOrderAsTrade(ex, x, StartupFee)
         r == IF row.order_type = "BUY_SAFETY"
              THEN HandleBuyFill(db, ex, row, ev, AllOk)
              ELSE HandleTpFill(db, ex, row, ev, AllOk)
     IN /\ db' = r.db
        /\ exch' = r.exch
  /\ act' = "-"
  /\ UNCHANGED <<registry, mgrs, aside>>

\* what happened on the exchange to the orders that were open at the crash
Downtime(ex) ==
  {[x \in 1..Len(ex) |->
      [ex[x] EXCEPT !.status = IF @ = "open" THEN s[x] ELSE @, !.sent = 0, !.done = 0]] :
     s \in [1..Len(ex) -> {"open", "closed", "canceled"}]}

\* the process ends and is started again: lifespan runs the recovery
Crash ==
  /\ boot.pc = "up"
  /\ exch' \in Downtime(exch)
  /\ boot' = [boot EXCEPT !.pc = "start", !.sess = db]
  /\ act' = "boot"
  /\ UNCHANGED <<db, registry, mgrs, rec, managers, calc, trail, recent_shift>>

\* BotRecoveryService._process_missed_fill, lines 266-282: the dict handed to
\* the handler, built from the order the REST call returned
ProcessMissedFill(ex, x, fee) ==
  LET filled_amount == ex[x].amount
      avg_price == ex[x].price
      order_cost == (filled_amount * avg_price) \div BaseScale
  IN [id |-> x, amount |-> filled_amount, price |-> avg_price,
      cost |-> order_cost, fee |-> fee]

\* BotRecoveryService._reconnect_websocket: nothing when a supervisor is
\* registered, else a new supervisor is registered and started
ReconnectWebsocket(reg, ms) ==
  IF reg # NULL THEN [mgrs |-> ms, registry |-> reg]
  ELSE [mgrs |-> Append(ms, NewMgr), registry |-> Len(ms) + 1]

\* history: of the local orders, all are open on the exchange but one ACTIVE
\* BUY_SAFETY order, which the exchange reports closed
OneMissedBuy(local_orders, ex) ==
  LET off == {o \in local_orders : o.xid # NULL /\ ex[o.xid].status # "open"}
  IN /\ Cardinality(off) = 1
     /\ \A o \in off : /\ o.order_type = "BUY_SAFETY" /\ o.status = "ACTIVE"
                        /\ ex[o.xid].status = "closed"

\* _recover_single_bot, lines 114-120, and _sync_orders_with_binance, lines
\* 167-187: the OPEN cycle, its ACTIVE and PENDING rows, the open orders
BootBegin(open_orders_ok) ==
  /\ boot.pc = "start"
  /\ db.active
  /\ LET open == OpenCycles(db)
         c == CHOOSE k \in open : TRUE
         local_orders == {o \in db.orders : o.cycle = c
                                            /\ o.status \in {"ACTIVE", "PENDING"}}
     IN IF open = {}
        THEN LET ws == ReconnectWebsocket(registry, mgrs)
             IN /\ mgrs' = ws.mgrs /\ registry' = ws.registry
                /\ boot' = [boot EXCEPT !.pc = "done", !.fresh = TRUE]
                /\ act' = "recovered"
                /\ UNCHANGED <<db, exch>>
        ELSE IF local_orders = {}
        THEN /\ boot' = [boot EXCEPT !.pc = "check", !.cycle = c]
             /\ act' = "-"
             /\ UNCHANGED <<db, exch, registry, mgrs>>
        ELSE IF ~open_orders_ok
        THEN /\ db' = Commit(db, [db EXCEPT !.active = FALSE])
             /\ boot' = [boot EXCEPT !.pc = "done", !.cycle = c]
             /\ act' = "recover_failed"
             /\ UNCHANGED <<exch, registry, mgrs>>
        ELSE /\ boot' = [boot EXCEPT
                           !.pc = "sync", !.cycle = c,
                           !.one_buy = OneMissedBuy(local_orders, exch),
                           !.todo = {o.pk : o \in local_orders},
                           !.map = {x \in 1..Len(exch) : exch[x].status = "open"}]
             /\ act' = "-"
             /\ UNCHANGED <<db, exch, registry, mgrs>>
  /\ UNCHANGED <<rec, managers, calc, trail, recent_shift>>

\* _handle_tp_fill, lines 485-494, on the state d its commit left: stop and
\* remove the registered supervisor, then start_first_cycle
RestartAfterTp(d, ex, reg, ms, in) ==
  LET ms1 == IF reg # NULL THEN StopMgr(ms, reg) ELSE ms
      ws == SetupWebsocket(NULL, ms1)
      r == StartPlace(d, ex, [price |-> in.price,
                              budget |-> EffectiveBudget(in.free_usdt)], in.accepted)
  IN IF in.free_usdt < MIN_TRADING_AMOUNT
     THEN [db |-> Rollback(d, d), exch |-> ex, registry |-> NULL, mgrs |-> ms1,
           ok |-> FALSE]
     ELSE [db |-> r.db, exch |-> r.exch, registry |-> ws.registry, mgrs |-> ws.mgrs,
           ok |-> r.result = "ok"]

\* local_order.status = OrderStatus.CANCELED on the session's row
MarkCanceled(d, pk) ==
  [d EXCEPT !.orders = {IF o.pk = pk THEN [o EXCEPT !.status = "CANCELED"] ELSE o :
                          o \in d.orders}]

SyncInputs ==
  [details_ok : BOOLEAN, fee : FeeInputs, avail : AvailInputs, cancel_ok : BOOLEAN,
   tp_ok : BOOLEAN, next_ok : BOOLEAN,
   free_usdt : FreeQuotes, price : Prices, accepted : BOOLEAN]

\* BotRecoveryService._sync_single_order for one of the local orders, up to
\* the commit of the handler it calls: the new values of the session, the
\* committed database and the exchange, and whether a SELL_TP fill has been
\* committed, after which the handler restarts the bot
SyncSingleOrder(b, d, ex, pk, in) ==
  LET row == CHOOSE o \in b.sess.orders : o.pk = pk
      x == row.xid
      same == [sess |-> b.sess, db |-> d, exch |-> ex, restart |-> FALSE]
      ev == ProcessMissedFill(ex, x, in.fee)
      buy == HandleBuyFill(b.sess, ex, row, ev, in)
      tp == HandleTpFill(b.sess, ex, row, ev, in)
  IN IF x = NULL \/ x \in b.map THEN same
     ELSE IF ~in.details_ok THEN [same EXCEPT !.sess = MarkCanceled(b.sess, pk)]
     ELSE IF ex[x].status = "canceled" THEN [same EXCEPT !.sess = MarkCanceled(b.sess, pk)]
     ELSE IF ex[x].status # "closed" \/ row.status = "FILLED" THEN same
     ELSE IF row.order_type = "BUY_SAFETY"
          THEN IF buy.raised
               THEN [same EXCEPT !.sess = MarkCanceled(buy.pending, pk), !.exch = buy.exch]
               ELSE [same EXCEPT !.sess = buy.db, !.db = buy.db, !.exch = buy.exch]
          ELSE [sess |-> tp.db, db |-> tp.db, exch |-> tp.exch, restart |-> TRUE]

\* the committed state the live path leaves for the fill of the ACTIVE
\* BUY_SAFETY row pk, when recovery replays that fill; else as before
LivePath(b, d, ex, pk, in) ==
  LET rows == {o \in d.orders : o.pk = pk /\ o.order_type = "BUY_SAFETY"
                                  /\ o.status = "ACTIVE" /\ o.xid # NULL}
      row == CHOOSE o \in rows : TRUE
  IN IF rows # {} /\ row.xid \notin b.map /\ in.details_ok /\ ex[row.xid].status = "closed"
     THEN <<HandleBuyFill(d, ex, row, ProcessOrderAsTrade(ex, row.xid, in.fee), in).db>>
     ELSE b.live

\* _sync_orders_with_binance, lines 189-192: one iteration over local_orders.
\* On a session that a rollback has expired, reading the row raises, and so
\* does the handler of recover_all_active_bots: recovery ends there.
BootSync(pk, in) ==
  /\ boot.pc = "sync"
  /\ pk \in boot.todo
  /\ IF boot.expired
     THEN /\ boot' = [boot EXCEPT !.pc = "done", !.todo = {}, !.sess = db]
          /\ act' = "recover_aborted"
          /\ UNCHANGED <<db, exch, registry, mgrs>>
     ELSE LET r == SyncSingleOrder(boot, db, exch, pk, in)
              live == LivePath(boot, db, exch, pk, in)
          IN /\ db' = r.db
             /\ exch' = r.exch
             /\ boot' = [boot EXCEPT !.sess = r.sess,
                                     !.pc = IF r.restart THEN "restart" ELSE @,
                                     !.cur = pk,
                                     !.todo = @ \ {pk},
                                     !.live = live,
                                     !.missed = IF live # boot.live THEN @ \cup {pk} ELSE @]
             /\ act' = "-"
             /\ UNCHANGED <<registry, mgrs>>
  /\ UNCHANGED <<rec, managers, calc, trail, recent_shift>>

\* the restart of _handle_tp_fill inside recovery.  When start_first_cycle
\* raises it has rolled the session back, which expires the session's objects;
\* _sync_single_order, lines 248-250, catches the exception and sets the row
\* of the SELL_TP to CANCELED.
BootRestart(free_usdt, price, accepted) ==
  /\ boot.pc = "restart"
  /\ LET r == RestartAfterTp(db, exch, registry, mgrs,
                             [free_usdt |-> free_usdt, price |-> price,
                              accepted |-> accepted])
     IN /\ db' = r.db
        /\ exch' = r.exch
        /\ registry' = r.registry
        /\ mgrs' = r.mgrs
        /\ boot' = [boot EXCEPT !.pc = "sync",
                                !.sess = IF r.ok THEN r.db ELSE MarkCanceled(r.db, boot.cur),
                                !.expired = ~r.ok]
        /\ act' = IF r.ok THEN "restart_ok" ELSE "restart_fail"
  /\ UNCHANGED <<rec, managers, calc, trail, recent_shift>>

\* _sync_orders_with_binance, lines 194-195: the commit after the loop
BootCommit ==
  /\ boot.pc = "sync"
  /\ boot.todo = {}
  /\ db' = Commit(db, boot.sess)
  /\ boot' = [boot EXCEPT !.pc = "check", !.sess = Commit(db, boot.sess)]
  /\ act' = "-"
  /\ UNCHANGED <<exch, registry, mgrs, rec, managers, calc, trail, recent_shift>>

\* _recover_single_bot, lines 129-138: the cycle is re-read; a cycle found
\* CLOSED leads to _start_fresh_cycle, else the websocket is reconnected.
\* Both read config.id first, which raises on an expired session.
BootCheck ==
  /\ boot.pc = "check"
  /\ IF boot.expired
     THEN /\ boot' = [boot EXCEPT !.pc = "done"]
          /\ act' = "recover_aborted"
          /\ UNCHANGED <<registry, mgrs>>
     ELSE LET ws == ReconnectWebsocket(registry, mgrs)
          IN /\ mgrs' = ws.mgrs
             /\ registry' = ws.registry
             /\ boot' = [boot EXCEPT !.pc = "done",
                                     !.fresh = db.cycles[boot.cycle].status = "CLOSED"]
             /\ act' = "recovered"
  /\ UNCHANGED <<db, exch, rec, managers, calc, trail, recent_shift>>

BootNext ==
  \/ UpStart
  \/ \E x \in 1..MaxXid : UpFill(x)
  \/ Crash
  \/ \E k \in BOOLEAN : BootBegin(k)
  \/ \E pk \in 1..(2 * GridLevels + 2), in \in SyncInputs : BootSync(pk, in)
  \/ \E f \in FreeQuotes, p \in Prices, a \in BOOLEAN : BootRestart(f, p, a)
  \/ BootCommit
  \/ BootCheck

BootSpec == BootInit /\ [][BootNext]_vars

\* the newest cycle is OPEN with its rung 0 ACTIVE and placed on the exchange,
\* and a supervisor is registered
FreshCycleStarted ==
  /\ registry # NULL
  /\ db.cycles # <<>>
  /\ LET c == Len(db.cycles)
     IN /\ db.cycles[c].status = "OPEN"
        /\ \E o \in {p \in db.orders : p.cycle = c /\ p.order_type = "BUY_SAFETY"
                                        /\ p.status = "ACTIVE"} :
             o.order_index = 0 /\ o.xid # NULL

\* C13: when recovery has succeeded for the active config and found no OPEN
\* cycle, or found its cycle CLOSED after the replay of the missed fills, the
\* config has an OPEN cycle with rung 0 placed and a supervisor is registered.
C13_FreshCycleAfterRecovery ==
  (act = "recovered" /\ boot.fresh) => FreshCycleStarted

\* C14: when recovery has succeeded for an OPEN cycle of which one locally
\* ACTIVE BUY_SAFETY order was reported closed by the exchange, and the other
\* local orders open, the committed database is the one the live path leaves
\* for that fill.
C14_RecoveryAsLive ==
  (boot.pc = "done" /\ act = "recovered" /\ boot.one_buy /\ boot.live # <<>>)
     => db = boot.live[1]

\* ======================================================= WebSocketRegistry
\* The registry on its own, for several configs: its map, the supervisors
\* that callers have constructed, the detached stop tasks that add() has
\* spawned, and stop_all with its bounded wait.
NumConfigs == 2      \* config ids
MaxSup == 3          \* supervisors constructed in one behaviour

ConfigIds == 1..NumConfigs

RegInit ==
  /\ CoreIdle
  /\ boot = NULL /\ rec = NULL /\ calc = NULL /\ trail = NULL /\ recent_shift = FALSE
  /\ managers = [map |-> [c \in ConfigIds |-> NULL],
                 sup |-> <<>>,
                 tasks |-> {},
                 evicted |-> {},
                 pc |-> "idle", began |-> {}, pending |-> {}, hung |-> {},
                 last |-> <<>>]

\* WebSocketRegistry.get
Get(r, config_id) == r.map[config_id]

\* variant: the stop task ends without stopping the supervisor
StopManagerSkips(sup, m) == sup

\* WebSocketRegistry._stop_manager_safely: manager.stop() clears _is_running
\* before it awaits exchange.close(); what close() raises is caught
StopManagerSafely(sup, m) ==
  [sup EXCEPT ![m].running = FALSE, ![m].stop_called = TRUE]

\* variant: the map is left as it is
ClearKeeps(map) == map

\* self.managers.clear()
Clear(map) == [c \in DOMAIN map |-> NULL]

\* WebSocketRegistry.add, with the caller's create_task(run_forever()): the
\* new supervisor is registered and runs; a supervisor it replaces gets a
\* detached stop task
RegAdd(config_id) ==
  /\ managers.pc # "gather"
  /\ Len(managers.sup) < MaxSup
  /\ LET new == Len(managers.sup) + 1
         old == managers.map[config_id]
     IN managers' = [managers EXCEPT
                       !.sup = Append(@, [config_id |-> config_id, running |-> TRUE,
                                          stop_called |-> FALSE]),
                       !.tasks = IF old # NULL THEN @ \cup {old} ELSE @,
                       !.evicted = IF old # NULL THEN @ \cup {old} ELSE @,
                       !.map[config_id] = new,
                       !.pc = "idle",
                       !.last = <<"add", config_id, new>>]
  /\ UNCHANGED <<core, boot, rec, calc, trail, recent_shift>>

\* the detached task of add() runs _stop_manager_safely
RegStopTask(m) ==
  /\ m \in managers.tasks
  /\ managers' = [managers EXCEPT !.sup = StopManagerSafely(@, m),
                                  !.tasks = @ \ {m},
                                  !.last = <<"stopped", m>>]
  /\ UNCHANGED <<core, boot, rec, calc, trail, recent_shift>>

\* WebSocketRegistry.remove
RegRemove(config_id) ==
  /\ managers.pc # "gather"
  /\ managers.map[config_id] # NULL
  /\ managers' = [managers EXCEPT !.map[config_id] = NULL,
                                  !.pc = "idle",
                                  !.last = <<"remove", config_id>>]
  /\ UNCHANGED <<core, boot, rec, calc, trail, recent_shift>>

\* WebSocketRegistry.stop_all, lines 60-72: with the lock held, nothing to do
\* on an empty map, else one stop coroutine per registered supervisor
StopAllBegin ==
  /\ managers.pc # "gather"
  /\ LET registered == {managers.map[c] : c \in ConfigIds} \ {NULL}
     IN managers' = [managers EXCEPT
                       !.pc = IF registered = {} THEN "returned" ELSE "gather",
                       !.began = registered,
                       !.pending = registered,
                       !.hung = {},
                       !.last = <<"stop_all">>]
  /\ UNCHANGED <<core, boot, rec, calc, trail, recent_shift>>

\* one of the coroutines gathered by stop_all starts: manager.stop() clears
\* _is_running, then exchange.close() returns, raises or does not return
StopAllRun(m, closes) ==
  /\ managers.pc = "gather"
  /\ m \in managers.pending
  /\ managers' = [managers EXCEPT !.sup = StopManagerSafely(@, m),
                                  !.pending = @ \ {m},
                                  !.hung = IF closes THEN @ ELSE @ \cup {m}]
  /\ UNCHANGED <<core, boot, rec, calc, trail, recent_shift>>

\* stop_all, lines 74-85: the gather has ended, or the timeout has expired
\* while some close() had not returned; the map is cleared either way.  The
\* tasks that gather creates are started by the event loop before a timer of
\* 10 or 15 seconds can expire.
StopAllReturn ==
  /\ managers.pc = "gather"
  /\ managers.pending = {}
  /\ managers' = [managers EXCEPT !.map = Clear(@),
                                  !.pc = "returned",
                                  !.last = IF managers.hung = {} THEN <<"stopped_all">>
                                           ELSE <<"timeout">>]
  /\ UNCHANGED <<core, boot, rec, calc, trail, recent_shift>>

RegNext ==
  \/ \E c \in ConfigIds : RegAdd(c)
  \/ \E m \in 1..MaxSup : RegStopTask(m)
  \/ \E c \in ConfigIds : RegRemove(c)
  \/ StopAllBegin
  \/ \E m \in 1..MaxSup, k \in BOOLEAN : StopAllRun(m, k)
  \/ StopAllReturn

RegSpec == RegInit /\ [][RegNext]_vars

\* the event loop runs every task that was created
RegFairSpec == RegSpec /\ WF_vars(\E m \in 1..MaxSup : RegStopTask(m))

\* C15: after add(config_id, new), get(config_id) returns new; a supervisor
\* that add has replaced is eventually stopped; and once no stop task is
\* outstanding, no replaced supervisor runs, so that of the supervisors
\* registered for a config only the current one can be running.
C15_AddReplaces ==
  /\ [](Len(managers.last) = 3 => Get(managers, managers.last[2]) = managers.last[3])
  /\ \A m \in 1..MaxSup :
       (m \in managers.evicted) ~> (m \in DOMAIN managers.sup /\ ~managers.sup[m].running)
  /\ [](managers.tasks = {} => \A m \in managers.evicted : ~managers.sup[m].running)

\* C15 witness: add has replaced a supervisor, which has been stopped, and the
\* supervisor registered in its place runs.
C15_Replaced ==
  \E m \in managers.evicted :
     /\ ~managers.sup[m].running
     /\ LET new == Get(managers, managers.sup[m].config_id)
        IN new # NULL /\ new # m /\ managers.sup[new].running

\* C16: when stop_all has returned, the map is empty and stop has been invoked
\* on every supervisor that was registered when it began.
C16_StopAllClears ==
  managers.pc = "returned" =>
     /\ \A c \in ConfigIds : Get(managers, c) = NULL
     /\ \A m \in managers.began : managers.sup[m].stop_called

\* C16 witness: stop_all has returned on the expiry of its timeout, two
\* supervisors having been registered when it began.
C16_TimedOut ==
  /\ managers.pc = "returned"
  /\ managers.last = <<"timeout">>
  /\ Cardinality(managers.began) = 2

\* ============================================ ticker events and the TP order
\* One OPEN cycle of a config with trailing_enabled whose rung 0 has filled
\* and whose TP is on the exchange, under what the running supervisor does
\* with ticker events and with BUY_SAFETY fills, with a clock in seconds.

TickSeconds == 5      \* the clock advances in steps of this many seconds
MaxNow == 40          \* the clock stops here
TrailRungs == 3       \* rungs of the cycle's grid

MinUpdateInterval == 10     \* TrailingTPManager.min_update_interval, seconds
TrailingEnabled == TRUE     \* config.trailing_enabled
TrailRungAmount == 20000    \* amount of every rung, base units
TrailPrices == {9000, 10130, 10200}   \* last prices of the ticker events

\* price of rung i of the cycle's grid
TrailRungPrice(i) == 10000 - 200 * i

\* no entry for the cycle in _tp_touch_counts / _tp_touch_times
NoTouch == [count |-> 0, since |-> 0]

\* variant: the second touch confirms
ShouldActivateEager(config, touch, cycle, current_price, now) ==
  LET tp_price == cycle.current_tp_price
      ok == /\ config.trailing_enabled /\ ~cycle.trailing_active
            /\ tp_price # NULL /\ current_price >= tp_price
            /\ touch.count >= 1
  IN [touch |-> IF ok \/ tp_price = NULL \/ current_price < tp_price
                THEN NoTouch
                ELSE [count |-> 1, since |-> now],
      ok |-> ok,
      starting_max_price |-> IF ok THEN tp_price ELSE NULL]

\* TrailingTPManager.should_activate: the confirmation of a price at or above
\* the TP (three touches, 0.2 % above, or 30 s since the first touch)
ShouldActivate(config, touch, cycle, current_price, now) ==
  LET tp_price == cycle.current_tp_price
      t0 == IF touch.count = 0 THEN [count |-> 0, since |-> now] ELSE touch
      t1 == [t0 EXCEPT !.count = @ + 1]
      no == [touch |-> touch, ok |-> FALSE, starting_max_price |-> NULL]
  IN IF ~config.trailing_enabled THEN no
     ELSE IF cycle.trailing_active THEN no
     ELSE IF tp_price = NULL THEN no
     ELSE IF current_price >= tp_price
          THEN IF t1.count >= 3
               THEN [touch |-> NoTouch, ok |-> TRUE, starting_max_price |-> tp_price]
               ELSE IF current_price * 1000 >= tp_price * 1002
               THEN [touch |-> NoTouch, ok |-> TRUE, starting_max_price |-> tp_price]
               ELSE IF now - t1.since > 30
               THEN [touch |-> NoTouch, ok |-> TRUE,
                     starting_max_price |-> current_price]
               ELSE [touch |-> t1, ok |-> FALSE, starting_max_price |-> NULL]
          ELSE [touch |-> NoTouch, ok |-> FALSE, starting_max_price |-> NULL]

\* TrailingTPManager.activate
ActivateTrailing(cycle, current_price, starting_max_price) ==
  [cycle EXCEPT !.trailing_active = TRUE,
                !.trailing_activation_price = current_price,
                !.max_price_tracked = IF starting_max_price # NULL
                                      THEN starting_max_price ELSE current_price]

\* TrailingTPManager.can_update_tp
CanUpdateTp(last_update_time, now) == now - last_update_time >= MinUpdateInterval

\* TrailingTPManager.create_or_update_tp_order with the exchange accepting:
\* the rate limit, then cancel the old TP and create the new one
CreateOrUpdateTpOrder(t, new_tp_price) ==
  IF ~CanUpdateTp(t.last_update_time, t.now) THEN t
  ELSE [t EXCEPT !.cycle.current_tp_order_id = t.next_id,
                 !.cycle.current_tp_price = new_tp_price,
                 !.tp_order_price = new_tp_price,
                 !.next_id = @ + 1,
                 !.replaced = IF t.cycle.current_tp_order_id # NULL
                              THEN Append(@, t.now) ELSE @,
                 !.last_update_time = t.now]

\* OrderHandler._handle_buy_fill on the fill of the cycle's next rung, with
\* the exchange accepting: the totals, the cancel of the old TP (lines
\* 135-144) and the new TP order; the fee is charged in the quote asset
BuyFillReplacesTp(t) ==
  LET cyc == t.cycle
      price == TrailRungPrice(cyc.filled)
      new_base_qty == cyc.total_base_qty + TrailRungAmount
      new_quote_spent == cyc.total_quote_spent
                           + (TrailRungAmount * price) \div BaseScale
      avg_price == (new_quote_spent * BaseScale) \div new_base_qty
      safe_price == TpPrice(avg_price, new_quote_spent)
  IN [t EXCEPT !.cycle = [cyc EXCEPT !.filled = @ + 1,
                                     !.total_base_qty = new_base_qty,
                                     !.total_quote_spent = new_quote_spent,
                                     !.avg_price = avg_price,
                                     !.current_tp_order_id = t.next_id],
               !.tp_order_price = safe_price,
               !.next_id = @ + 1,
               !.replaced = IF cyc.current_tp_order_id # NULL
                            THEN Append(@, t.now) ELSE @]

\* the cycle as start_first_cycle creates it, and the supervisor's view of it
TrailStart ==
  [now |-> 0, price_cache |-> NULL, next_id |-> 1,
   cycle |-> [status |-> "OPEN", filled |-> 0, total_base_qty |-> 0,
              total_quote_spent |-> 0, avg_price |-> 0,
              current_tp_order_id |-> NULL, current_tp_price |-> NULL,
              trailing_active |-> FALSE, trailing_activation_price |-> NULL,
              max_price_tracked |-> NULL],
   tp_order_price |-> NULL,
   last_update_time |-> 0 - MinUpdateInterval,
   touch |-> NoTouch, armed |-> FALSE, replaced |-> <<>>]

\* rung 0 has filled and the first TP is on the exchange
TrailInit ==
  /\ CoreIdle
  /\ boot = NULL /\ rec = NULL /\ managers = NULL /\ calc = NULL
  /\ recent_shift = FALSE
  /\ trail = BuyFillReplacesTp(TrailStart)

\* _watch_price_loop on one ticker event: the price cache, then
\* _check_grid_shift, which returns at the FILLED rung 0 (line 233).
\* touch and armed record what the activation condition says of the ticks
\* received, taken against the price of the cycle's TP order.
TrailTick(current_price) ==
  /\ LET seen == ShouldActivate([trailing_enabled |-> TrailingEnabled], trail.touch,
                                [trail.cycle EXCEPT !.current_tp_price =
                                                       trail.tp_order_price],
                                current_price, trail.now)
     IN trail' = [trail EXCEPT !.price_cache = current_price,
                               !.touch = seen.touch,
                               !.armed = @ \/ seen.ok]
  /\ UNCHANGED <<core, boot, rec, managers, calc, recent_shift>>

\* the fill of the cycle's next rung arrives and its handler runs
TrailBuyFill ==
  /\ trail.cycle.filled < TrailRungs
  /\ trail' = [BuyFillReplacesTp(trail) EXCEPT !.touch = NoTouch, !.armed = FALSE]
  /\ UNCHANGED <<core, boot, rec, managers, calc, recent_shift>>

\* time passes
TrailTime ==
  /\ trail.now < MaxNow
  /\ trail' = [trail EXCEPT !.now = @ + TickSeconds]
  /\ UNCHANGED <<core, boot, rec, managers, calc, recent_shift>>

TrailNext ==
  \/ \E p \in TrailPrices : TrailTick(p)
  \/ TrailBuyFill
  \/ TrailTime

TrailSpec == TrailInit /\ [][TrailNext]_vars

\* the exchange keeps sending ticker events to the running supervisor
TrailFairSpec == TrailSpec /\ WF_vars(\E p \in TrailPrices : TrailTick(p))

\* C17: once the ticks on the OPEN cycle with a TP satisfy the activation
\* condition, the cycle's trailing_active eventually becomes true
C17_TicksActivateTrailing == trail.armed ~> trail.cycle.trailing_active

\* C18: no two replacements of the cycle's TP order on the exchange are less
\* than min_update_interval (10 s) apart
C18_TpReplacementsSpaced ==
  \A i \in 1..(Len(trail.replaced) - 1) :
     trail.replaced[i + 1] - trail.replaced[i] >= MinUpdateInterval

\* ======================================================== pure functions
\* GridCalculator.calculate and the budget of start_first_cycle, applied to
\* inputs drawn from bounded sets. Prices are in 1/10000 USDT, budgets,
\* balances and volumes in whole cents, amounts in 1/10000 coin.

MaxLevels == 3        \* largest grid_levels drawn

CurrentPrices == {2000, 10000, 200000}
GridBudget == 1000
LevelInputs == 0..MaxLevels
LengthInputs == {0, 1, 50, 100, 101}
FirstStepInputs == {0, 10, 100}
VolumeScaleInputs == {0, 50}
PricePrecisionStep == 100      \* price_precision = 2: one cent
BudgetInputs == {500, 1000, 9950, 10000, 10050, 15000}
FreeInputs == {500, 1000, 5000, 10000, 10100, 20000}

\* the GridConfig objects drawn, before validation
GridConfigs ==
  [current_price : CurrentPrices, total_budget : {GridBudget},
   grid_levels : LevelInputs, grid_length_pct : LengthInputs,
   first_step_pct : FirstStepInputs, volume_scale_pct : VolumeScaleInputs]

\* GridConfig.__post_init__ raises nothing
GridConfigValid(config) ==
  /\ config.current_price > 0
  /\ config.total_budget > 0
  /\ config.grid_levels >= 1
  /\ 0 <= config.grid_length_pct /\ config.grid_length_pct <= 100
  /\ 0 <= config.first_step_pct /\ config.first_step_pct <= 100
  /\ config.volume_scale_pct >= 0

\* round(price, price_precision): to the nearest step; a value half way
\* between two steps goes where its binary representation falls (up or down)
RoundPrice(price, up) ==
  LET lo == (price \div PricePrecisionStep) * PricePrecisionStep
      r == price - lo
  IN IF 2 * r < PricePrecisionStep THEN lo
     ELSE IF 2 * r > PricePrecisionStep THEN lo + PricePrecisionStep
     ELSE IF up THEN lo + PricePrecisionStep ELSE lo

\* GridCalculator.calculate with _create_order: the list of orders, or the
\* ZeroDivisionError of volume_usdt / price
Calculate(config, up) ==
  LET n == config.grid_levels
      first_price == (config.current_price * (100 - config.first_step_pct)) \div 100
      last_price == (first_price * (100 - config.grid_length_pct)) \div 100
      price_step == IF n <= 1 THEN 0 ELSE (first_price - last_price) \div (n - 1)
      num == [i \in 0..(n - 1) |->
                Pow(100 + config.volume_scale_pct, i) * Pow(100, n - 1 - i)]
      weights == SumTo(num, n - 1)
      volume_usdt(i) == (config.total_budget * num[i]) \div weights
      price(i) == first_price - i * price_step
  IN IF \E i \in 0..(n - 1) : price(i) = 0
     THEN [raised |-> "ZeroDivisionError", orders |-> <<>>]
     ELSE [raised |-> "-",
           orders |-> [k \in 1..n |->
                         [index |-> k - 1,
                          price |-> RoundPrice(price(k - 1), up),
                          amount_usdt |-> (2 * config.total_budget * num[k - 1] + weights)
                                             \div (2 * weights),
                          amount_base |-> (volume_usdt(k - 1) * 1000000)
                                             \div price(k - 1)]]]

\* BotManager.start_first_cycle, lines 30-45: the balance check and the budget
EffectiveBudgetOf(total_budget, free_usdt) ==
  IF free_usdt < MIN_TRADING_AMOUNT
  THEN [raised |-> "ValueError", effective_budget |-> 0]
  ELSE [raised |-> "-",
        effective_budget |->
          IF total_budget > free_usdt
          THEN (free_usdt * BALANCE_RESERVE_PCT) \div 100 ELSE total_budget]

CalcInit ==
  /\ CoreIdle
  /\ boot = NULL /\ rec = NULL /\ managers = NULL /\ trail = NULL /\ recent_shift = FALSE
  /\ \/ \E config \in GridConfigs :
          calc = [fn |-> "grid", pc |-> "call", config |-> config]
     \/ \E total_budget \in BudgetInputs, free_usdt \in FreeInputs :
          calc = [fn |-> "budget", pc |-> "call",
                  total_budget |-> total_budget, free_usdt |-> free_usdt]

\* GridConfig(...) then GridCalculator(config).calculate()
CalcGrid(up) ==
  /\ calc.fn = "grid" /\ calc.pc = "call"
  /\ calc' = IF ~GridConfigValid(calc.config)
             THEN [fn |-> "grid", pc |-> "done", config |-> calc.config,
                   raised |-> "ValueError", orders |-> <<>>]
             ELSE LET r == Calculate(calc.config, up)
                  IN [fn |-> "grid", pc |-> "done", config |-> calc.config,
                      raised |-> r.raised, orders |-> r.orders]
  /\ UNCHANGED <<core, boot, rec, managers, trail, recent_shift>>

\* start_first_cycle up to the budget it hands to GridConfig
CalcBudget ==
  /\ calc.fn = "budget" /\ calc.pc = "call"
  /\ LET r == EffectiveBudgetOf(calc.total_budget, calc.free_usdt)
     IN calc' = [fn |-> "budget", pc |-> "done",
                 total_budget |-> calc.total_budget, free_usdt |-> calc.free_usdt,
                 raised |-> r.raised, effective_budget |-> r.effective_budget]
  /\ UNCHANGED <<core, boot, rec, managers, trail, recent_shift>>

CalcNext ==
  \/ \E up \in BOOLEAN : CalcGrid(up)
  \/ CalcBudget

CalcSpec == CalcInit /\ [][CalcNext]_vars

\* C19: for a valid GridConfig, calculate returns grid_levels orders with
\* indices 0..N-1 in order and strictly decreasing prices
C19_GridStrictlyDecreasing ==
  (calc.fn = "grid" /\ calc.pc = "done" /\ GridConfigValid(calc.config)) =>
     /\ calc.raised = "-"
     /\ Len(calc.orders) = calc.config.grid_levels
     /\ \A k \in 1..Len(calc.orders) : calc.orders[k].index = k - 1
     /\ \A k \in 1..(Len(calc.orders) - 1) :
          calc.orders[k].price > calc.orders[k + 1].price

\* C20: with a free balance of at least 10 USDT the budget used is
\* min(total_budget, 0.99 * free), never more than 99 % of the free balance
C20_BudgetWithinReserve ==
  (calc.fn = "budget" /\ calc.pc = "done" /\ calc.free_usdt >= MIN_TRADING_AMOUNT) =>
     /\ calc.raised = "-"
     /\ calc.effective_budget * 100 <= calc.free_usdt * BALANCE_RESERVE_PCT
     /\ \/ calc.effective_budget = calc.total_budget
        \/ calc.effective_budget * 100 = calc.free_usdt * BALANCE_RESERVE_PCT

\* ---------------------------------------------- redelivery after a failure
\* the exchange's responses when nothing fails
OkInputs == {in \in HandlerInputs : in.cancel_ok /\ in.tp_ok /\ in.next_ok}

\* the order loop of a running supervisor keeps receiving the updates of the
\* filled orders and its handlers run to their end; the exchange answers
\* without error again and again
FairSpec ==
  /\ Spec
  /\ WF_vars(\E m \in 1..MaxMgr, x \in 1..MaxXid : OrdersReceive(m, x))
  /\ WF_vars(\E m \in 1..MaxMgr : HBegin(m))
  /\ SF_vars(\E m \in 1..MaxMgr, in \in OkInputs : HBuyFinish(m, in))

\* the BUY_SAFETY fill whose handler has just returned at the network error
\* of the TP's create_order: the newest FILLED rung of the cycle, committed
TpFailedFor(x) ==
  /\ act = "tp_failed"
  /\ x \in 1..Len(exch)
  /\ exch[x].side = "buy" /\ exch[x].done >= 1
  /\ PlacedFor(x, "sell") = {}
  /\ \E o \in db.orders :
       /\ o.xid = x /\ o.order_type = "BUY_SAFETY" /\ o.status = "FILLED"
       /\ db.cycles[o.cycle].total_base_qty > 0
       /\ \A p \in db.orders :
            (p.cycle = o.cycle /\ p.order_type = "BUY_SAFETY" /\ p.status = "FILLED")
               => p.order_index <= o.order_index

\* the config's registered supervisor is running
SupervisorRuns == registry # NULL /\ mgrs[registry].running

\* C21: after the TP's create_order failed with a network error in the handler
\* of a BUY_SAFETY fill, the fill's updates are committed and, the fill being
\* delivered again to a running supervisor, a SELL_TP is eventually placed
\* for it (unless the bot is stopped first)
C21_RedeliveryResumes ==
  \A x \in 1..MaxXid :
     TpFailedFor(x) ~> (PlacedFor(x, "sell") # {} \/ ~SupervisorRuns)

\* ================================================== one handler at a time
\* The bot of one config with a single supervisor whose fill handlers run one
\* after the other, over a wider range of balances, prices and exchange
\* answers than Spec draws.

SeqMaxXid == 5       \* exchange order ids handed out in one behaviour

SeqFreeQuotes == {1020, 20000}     \* free USDT balances, cents
SeqPrices == {1112, 10000}         \* last prices at the start of a cycle
SeqAvailInputs == {"exact", "low", "zero"}

SeqInputs ==
  [fee : FeeInputs, avail : SeqAvailInputs, cancel_ok : BOOLEAN,
   tp_ok : BOOLEAN, next_ok : BOOLEAN]

\* start_bot -> BotManager.start_first_cycle with the exchange accepting rung 0
SeqStart(free_usdt, price) ==
  /\ act # "tp_closed"
  /\ OpenCycles(db) = {}
  /\ Len(db.cycles) < MaxCycles
  /\ Len(exch) < SeqMaxXid
  /\ LET r == StartPlace(db, exch, [price |-> price,
                                     budget |-> EffectiveBudget(free_usdt)], TRUE)
     IN /\ db' = r.db
        /\ exch' = r.exch
        /\ act' = IF r.result = "ok" THEN "start_ok" ELSE "start_fail_notional"
  /\ UNCHANGED <<registry, mgrs>>
  /\ UNCHANGED aside

\* the exchange fills open order x completely
SeqExFill(x) ==
  /\ act # "tp_closed"
  /\ x \in 1..Len(exch)
  /\ exch[x].status = "open"
  /\ exch' = [exch EXCEPT ![x].status = "closed"]
  /\ act' = "-"
  /\ UNCHANGED <<db, registry, mgrs>>
  /\ UNCHANGED aside

\* handle_filled_order for the update of filled order x, from its SELECT to
\* its commit (for a SELL_TP: the commit of _handle_tp_fill, line 484)
SeqHandle(x, in) ==
  /\ act # "tp_closed"
  /\ x \in 1..Len(exch) /\ exch[x].status = "closed"
  /\ \E row \in RowByXid(db, x) :
       /\ row.status # "FILLED"
       /\ LET ev == ProcessOrderAsTrade(exch, x, in.fee)
          IN IF row.order_type = "BUY_SAFETY"
             THEN LET r == HandleBuyFill(db, exch, row, ev, in)
                  IN /\ Len(r.exch) <= SeqMaxXid
                     /\ db' = r.db
                     /\ exch' = IF r.raised THEN r.exch ELSE Handled(r.exch, x)
                     /\ act' = IF r.raised THEN "raised" ELSE r.tp
             ELSE LET r == HandleTpFill(db, exch, row, ev, in)
                  IN /\ db' = r.db
                     /\ exch' = Handled(r.exch, x)
                     /\ act' = "tp_closed"
  /\ UNCHANGED <<registry, mgrs>>
  /\ UNCHANGED aside

\* _handle_tp_fill, lines 485-494: start_first_cycle for the next cycle
SeqRestart(free_usdt, price, accepted) ==
  /\ act = "tp_closed"
  /\ IF free_usdt < MIN_TRADING_AMOUNT \/ Len(db.cycles) >= MaxCycles
        \/ Len(exch) >= SeqMaxXid
     THEN /\ act' = "restart_fail"
          /\ UNCHANGED <<db, exch>>
     ELSE LET r == StartPlace(db, exch, [price |-> price,
                                          budget |-> EffectiveBudget(free_usdt)],
                              accepted)
          IN /\ db' = r.db
             /\ exch' = r.exch
             /\ act' = IF r.result = "ok" THEN "restart_ok" ELSE "restart_fail"
  /\ UNCHANGED <<registry, mgrs>>
  /\ UNCHANGED aside

SeqNext ==
  \/ \E f \in SeqFreeQuotes, p \in SeqPrices : SeqStart(f, p)
  \/ \E x \in 1..SeqMaxXid : SeqExFill(x)
  \/ \E x \in 1..SeqMaxXid, in \in SeqInputs : SeqHandle(x, in)
  \/ \E f \in SeqFreeQuotes, p \in SeqPrices, a \in BOOLEAN : SeqRestart(f, p, a)

SeqSpec == Init /\ [][SeqNext]_vars

\* the FILLED BUY_SAFETY rows with the greatest order_index of their cycle
NewestFilled ==
  {o \in db.orders :
     /\ o.order_type = "BUY_SAFETY" /\ o.status = "FILLED"
     /\ o.cycle \in OpenCycles(db)
     /\ \A p \in db.orders :
          (p.cycle = o.cycle /\ p.order_type = "BUY_SAFETY" /\ p.status = "FILLED")
             => p.order_index <= o.order_index}

\* C22: when the handler of a BUY_SAFETY fill has found the SELL_TP below the
\* minimum notional, the rung after the filled one, if it exists and meets
\* the minimum notional, is ACTIVE on the exchange
C22_NextRungDespiteSmallTp ==
  act = "tp_notional" =>
    \A o \in NewestFilled :
      \A n \in NextRung(db, o.cycle, o.order_index + 1) :
         CheckMinNotional(RoundAmount(n.amount), n.price) =>
            /\ n.status = "ACTIVE"
            /\ n.xid # NULL

\* ------------------------------------------------------------ grid shifts
\* the BUY_SAFETY rows of cycle c in database state d
BuyRows(d, c) == {o \in d.orders : o.cycle = c /\ o.order_type = "BUY_SAFETY"}

\* rung 0 of cycle c is committed as FILLED
RungZeroFilled(c) ==
  \E o \in BuyRows(db, c) : o.order_index = 0 /\ o.status = "FILLED"

\* C23: a grid shift that is applied when rung 0 of its cycle is committed as
\* FILLED leaves the cycle's BUY_SAFETY rows and the exchange's orders as
\* they are, also when the shift was decided before the fill was committed
C23_NoShiftAfterRungZero ==
  [][\A m \in DOMAIN mgrs :
       (mgrs[m].tpc = "selected" /\ mgrs'[m].tpc = "idle"
          /\ RungZeroFilled(mgrs[m].tcycle))
       => (BuyRows(db', mgrs[m].tcycle) = BuyRows(db, mgrs[m].tcycle) /\ exch' = exch)]_vars


\* supervisor m's shift_grid runs from its cancels to its commit or rollback
ShiftStep(m) == mgrs[m].tpc = "selected" /\ mgrs'[m].tpc = "idle"

\* a cancel_order of that shift_grid has raised: an order it was to cancel is
\* not canceled on the exchange afterwards
ShiftCancelFailed(m) ==
  \E s \in mgrs[m].tsnap : s.xid # NULL /\ exch'[s.xid].status # "canceled"

\* C24: a grid shift during which an exchange call fails (the cancel of an
\* old rung, or the placing of the new rung 0) leaves the committed database
\* as it was before the shift
C24_FailedShiftChangesNothing ==
  [][\A m \in DOMAIN mgrs :
       (ShiftStep(m) /\ (ShiftCancelFailed(m) \/ act' # "shift_commit"))
       => db' = db]_vars


\* the non-FILLED BUY_SAFETY rows of cycle c in database state d
Unfilled(d, c) == {o \in BuyRows(d, c) : o.status # "FILLED"}

\* C25: after a grid shift has committed, the non-FILLED BUY_SAFETY rows of
\* its cycle are GridLevels new rows with the indices 0..GridLevels-1; rung 0
\* is ACTIVE with a new exchange order id and the others are PENDING with
\* none; initial_first_order_price is the new rung 0's price; the cycle's
\* totals, average price, TP order id, status and dust are as before
C25_ShiftReplacesGrid ==
  [][\A m \in DOMAIN mgrs :
       (ShiftStep(m) /\ act' = "shift_commit") =>
         LET c == mgrs[m].tcycle
             new == Unfilled(db', c)
         IN /\ Cardinality(new) = GridLevels
            /\ {o.order_index : o \in new} = 0..(GridLevels - 1)
            /\ \A o \in new :
                 /\ o.pk >= db.npk
                 /\ IF o.order_index = 0
                    THEN /\ o.status = "ACTIVE"
                         /\ o.xid > Len(exch) /\ o.xid <= Len(exch')
                         /\ exch'[o.xid].status = "open"
                         /\ db'.cycles[c].initial_first_order_price = o.price
                    ELSE o.status = "PENDING" /\ o.xid = NULL
            /\ db'.cycles[c] =
                 [db.cycles[c] EXCEPT !.initial_first_order_price =
                                         db'.cycles[c].initial_first_order_price]]_vars

\* C25 witness: a shift has just committed and its new rung 0 is ACTIVE at the
\* price the cycle records as initial_first_order_price
C25_Shifted ==
  /\ act = "shift_commit"
  /\ \E o \in db.orders :
       /\ o.pk = db.npk - GridLevels /\ o.order_index = 0 /\ o.status = "ACTIVE"
       /\ db.cycles[o.cycle].initial_first_order_price = o.price
       /\ Cardinality(Unfilled(db, o.cycle)) = GridLevels


\* ======================================================= the shift throttle
\* The config's supervisors with their ticker handlers run as one step each,
\* start_bot called again, and the 15 s of the throttle passing.

ShiftPrices == {10000, 11000, 12200}   \* last prices of start and ticker

\* _watch_price_loop -> _check_grid_shift -> shift_grid for one ticker event
\* that passes the throttle and the drift threshold: lines 201-256
ShiftTick(m, price, cancel_ok, accepted) ==
  /\ m \in Mgrs
  /\ mgrs[m].running
  /\ ~mgrs[m].throttled
  /\ ShiftCandidates(db, price) # {}
  /\ Len(exch) < SeqMaxXid
  /\ LET c == CHOOSE k \in ShiftCandidates(db, price) : TRUE
         r == ShiftGrid(db, exch, CancelPendingSelect(db, c), c, price,
                        cancel_ok, accepted)
     IN /\ db' = r.db
        /\ exch' = r.exch
        /\ mgrs' = [mgrs EXCEPT ![m].throttled = r.ok]
        /\ recent_shift' = (recent_shift \/ r.ok)
        /\ act' = IF r.ok THEN "shift_commit" ELSE "shift_fail"
  /\ UNCHANGED <<registry, boot, rec, managers, calc, trail>>

\* 15 seconds pass without a shift
ShiftWindowEnds ==
  /\ recent_shift \/ \E m \in Mgrs : mgrs[m].throttled
  /\ recent_shift' = FALSE
  /\ mgrs' = [m \in Mgrs |-> [mgrs[m] EXCEPT !.throttled = FALSE]]
  /\ act' = "-"
  /\ UNCHANGED <<db, exch, registry, boot, rec, managers, calc, trail>>

ShiftNext ==
  \/ \E f \in FreeQuotes, p \in ShiftPrices, a \in BOOLEAN : HttpStart(f, p, a)
  \/ \E m \in 1..MaxMgr, p \in ShiftPrices, c \in BOOLEAN, a \in BOOLEAN :
        ShiftTick(m, p, c, a)
  \/ ShiftWindowEnds

ShiftSpec == Init /\ [][ShiftNext]_vars

\* C26: a grid shift of the config commits only when no grid shift of the
\* config has committed in the 15 s before it
C26_ShiftsThrottled == [][act' = "shift_commit" => ~recent_shift]_vars


\* ------------------------------------------------- replacing a filled TP
\* the OPEN cycles whose current TP order is filled on the exchange
TpAlreadyFilled ==
  {c \in OpenCycles(db) :
     /\ db.cycles[c].current_tp_order_id # NULL
     /\ exch[db.cycles[c].current_tp_order_id].status = "closed"}

\* C27: no handler places a sell order for a cycle whose current TP order is
\* already filled on the exchange
C27_NoReplacementOfFilledTp ==
  [][\A y \in (Len(exch) + 1)..Len(exch') :
       exch'[y].side = "sell" =>
         \A o \in RowByXid(db, exch'[y].cause) : o.cycle \notin TpAlreadyFilled]_vars


\* ------------------------------------------------- closing a cycle
\* the step commits the close of cycle c
Closes(c) ==
  /\ c <= Len(db.cycles) /\ c <= Len(db'.cycles)
  /\ db.cycles[c].status = "OPEN"
  /\ db'.cycles[c].status = "CLOSED"

\* C28: when the handling of a SELL_TP fill closes a cycle, no order of that
\* cycle is left ACTIVE in the committed rows
C28_ClosedCycleHasNoActiveOrder ==
  [][\A c \in 1..MaxCycles :
       Closes(c) => \A o \in db'.orders : o.cycle = c => o.status # "ACTIVE"]_vars


\* ------------------------------------------------- what recovery cancels
\* the rows that a step of the order sync commits as CANCELED
CanceledBySync ==
  {o \in db'.orders :
     /\ boot.pc \in {"sync", "restart"}
     /\ o.status = "CANCELED"
     /\ \E p \in db.orders : p.pk = o.pk /\ p.status \in {"ACTIVE", "PENDING"}}

\* C29: the startup order sync commits a locally ACTIVE or PENDING order as
\* CANCELED only when the exchange holds that order as canceled; an order
\* that is open or filled on the exchange is never marked CANCELED
C29_SyncCancelsOnlyCanceled ==
  [][\A o \in CanceledBySync : o.xid # NULL /\ exch'[o.xid].status = "canceled"]_vars


\* ================================================ should_activate alone
\* TrailingTPManager.should_activate called on the ticks of one cycle, for
\* every setting of trailing_enabled, trailing_active and current_tp_price,
\* with a clock in seconds. ticks and first are kept from the calls alone:
\* the number of calls in a row with a price at or above the TP since the
\* last call below it or the last confirmation, and the time of the first.

ActTpPrice == 10000
ActPrices == {9900, 10000, 10010, 10020}     \* below, at, 0.1 % and 0.2 % above
ActNoCall == [called |-> FALSE, current_price |-> 0, now |-> 0, ok |-> FALSE,
              starting_max_price |-> NULL, ticks |-> 0, first |-> 0]

ActInit ==
  /\ CoreIdle
  /\ boot = NULL /\ rec = NULL /\ managers = NULL /\ calc = NULL
  /\ recent_shift = FALSE
  /\ \E enabled \in BOOLEAN, active \in BOOLEAN, tp \in {NULL, ActTpPrice} :
       trail = [config |-> [trailing_enabled |-> enabled],
                cycle |-> [trailing_active |-> active, current_tp_price |-> tp,
                           trailing_activation_price |-> NULL,
                           max_price_tracked |-> NULL],
                now |-> 0, touch |-> NoTouch, ticks |-> 0, first |-> 0,
                last |-> ActNoCall]

\* one call of should_activate(cycle, current_price)
ActTick(current_price) ==
  /\ LET tp == trail.cycle.current_tp_price
         above == tp # NULL /\ current_price >= tp
         r == ShouldActivate(trail.config, trail.touch, trail.cycle,
                             current_price, trail.now)
         ticks == IF above THEN (IF trail.ticks < 3 THEN trail.ticks + 1 ELSE 3) ELSE 0
         first == IF ~above THEN 0 ELSE IF trail.ticks = 0 THEN trail.now ELSE trail.first
     IN trail' = [trail EXCEPT
                    !.touch = r.touch,
                    !.ticks = IF r.ok THEN 0 ELSE ticks,
                    !.first = IF r.ok THEN 0 ELSE first,
                    !.last = [called |-> TRUE, current_price |-> current_price,
                              now |-> trail.now, ok |-> r.ok,
                              starting_max_price |-> r.starting_max_price,
                              ticks |-> ticks, first |-> first]]
  /\ UNCHANGED <<core, boot, rec, managers, calc, recent_shift>>

\* time passes between two calls
ActTime ==
  /\ trail.now < MaxNow
  /\ trail' = [trail EXCEPT !.now = @ + TickSeconds]
  /\ UNCHANGED <<core, boot, rec, managers, calc, recent_shift>>

\* activate(cycle, current_price, starting_max_price) with the price of the
\* call that has confirmed and the starting max it returned
ActActivate ==
  /\ trail.last.called /\ trail.last.ok
  /\ trail' = [trail EXCEPT
                 !.cycle = ActivateTrailing(trail.cycle, trail.last.current_price,
                                            trail.last.starting_max_price),
                 !.last = ActNoCall]
  /\ UNCHANGED <<core, boot, rec, managers, calc, recent_shift>>

ActNext ==
  \/ \E p \in ActPrices : ActTick(p)
  \/ ActTime
  \/ ActActivate

ActivateSpec == ActInit /\ [][ActNext]_vars

MaxPrice(a, b) == IF a >= b THEN a ELSE b

\* C31: the activation that follows a confirmed tick sets max_price_tracked
\* to the larger of current_tp_price and the price of that tick, whichever
\* of the three confirmations it was
C31_StartingMaxIsLarger ==
  [][(trail.last.ok /\ trail'.cycle.trailing_active) =>
       trail'.cycle.max_price_tracked =
         MaxPrice(trail.cycle.current_tp_price, trail.last.current_price)]_vars


\* ================================================ the emergency exit
\* TrailingTPManager.monitor_emergency_exit called on the ticks of one cycle
\* object whose TP order is on the exchange. Prices in 1/10000 USDT. The
\* cycle is a DcaCycle: current_tp_price is no column of it, so the object
\* has the attribute only when a statement has assigned it (NoAttr else).

MaxHistory == 12           \* DumpDetector.max_history
DumpThresholdPct == 2      \* threshold_pct of detect_rapid_drop
MinProfitPct == 1          \* config.trailing_min_profit_pct or 1.0
MaxTicks == 7              \* calls of monitor_emergency_exit drawn
NoAttr == 0 - 1            \* the object has no such attribute
ExitAvgPrice == 9500
ExitTpPrice == 10000
ExitAmount == 5000         \* base held by the TP order
ExitPrices == {10000, 9790, 9700}
ExitInputs == [cancel_ok : BOOLEAN, sell_ok : BOOLEAN]

\* DumpDetector.add_price, without the time stamps
AddPrice(price_history, price) ==
  LET h == Append(price_history, price)
  IN IF Len(h) > MaxHistory THEN Tail(h) ELSE h

\* DumpDetector.detect_rapid_drop
DetectRapidDrop(price_history) ==
  IF Len(price_history) < 6 THEN FALSE
  ELSE LET price_30s_ago == price_history[Len(price_history) - 5]
           current_price == price_history[Len(price_history)]
       IN (price_30s_ago - current_price) * 100 > DumpThresholdPct * price_30s_ago

\* TrailingTPManager.calculate_min_profit_price on a cycle that has the
\* attribute current_tp_price
CalculateMinProfitPrice(cycle) ==
  IF cycle.avg_price = 0 \/ cycle.current_tp_price = NULL THEN 0
  ELSE LET adaptive == cycle.avg_price
                         + (66 * (cycle.current_tp_price - cycle.avg_price)) \div 100
           floor == (cycle.avg_price * (100 + MinProfitPct)) \div 100
       IN IF adaptive >= floor THEN adaptive ELSE floor

\* TrailingTPManager.emergency_market_sell: the cancel of the TP, whose
\* failure is logged, the free balance, the market sell, the three fields
EmergencyMarketSell(cycle, ex, reason, in) ==
  LET canceled == /\ cycle.current_tp_order_id # NULL
                  /\ ex.tp_status = "open" /\ in.cancel_ok
      ex1 == IF canceled
             THEN [ex EXCEPT !.tp_status = "canceled", !.free = @ + ex.locked,
                             !.locked = 0]
             ELSE ex
      available == ex1.free
  IN IF available <= 0
     THEN [cycle |-> cycle, ex |-> ex1, success |-> FALSE, sell |-> "none"]
     ELSE IF ~in.sell_ok
     THEN [cycle |-> cycle, ex |-> ex1, success |-> FALSE, sell |-> "failed"]
     ELSE [cycle |-> [cycle EXCEPT !.emergency_exit = TRUE,
                                   !.emergency_exit_reason = reason,
                                   !.emergency_exit_time = TRUE],
           ex |-> [ex1 EXCEPT !.free = 0, !.sold = Append(@, available)],
           success |-> TRUE, sell |-> "placed"]

\* TrailingTPManager.monitor_emergency_exit: what it leaves of the detector's
\* history, the cycle and the exchange, and how it ended
MonitorEmergencyExit(t, current_price, in) ==
  LET h == AddPrice(t.price_history, current_price)
      idle == [price_history |-> t.price_history, cycle |-> t.cycle, ex |-> t.ex,
               raised |-> FALSE, success |-> FALSE, sell |-> "none"]
      min_profit_price == CalculateMinProfitPrice(t.cycle)
      below == EmergencyMarketSell(t.cycle, t.ex, "Below min_profit", in)
      dump == EmergencyMarketSell(t.cycle, t.ex, "Dump detected", in)
  IN IF ~t.cycle.trailing_active THEN idle
     ELSE IF t.cycle.avg_price # 0 /\ t.cycle.current_tp_price = NoAttr
     THEN [idle EXCEPT !.price_history = h, !.raised = TRUE]
     ELSE IF current_price * 1000 < min_profit_price * 995
     THEN [price_history |-> h, cycle |-> below.cycle, ex |-> below.ex,
           raised |-> FALSE, success |-> below.success, sell |-> below.sell]
     ELSE IF DetectRapidDrop(h)
     THEN [price_history |-> h, cycle |-> dump.cycle, ex |-> dump.ex,
           raised |-> FALSE, success |-> dump.success, sell |-> dump.sell]
     ELSE [idle EXCEPT !.price_history = h]

ExitNoCall == [called |-> FALSE, current_price |-> 0, before |-> <<>>, free |-> 0,
               dropped |-> FALSE, below |-> FALSE, raised |-> FALSE,
               success |-> FALSE, sell |-> "none"]

\* a cycle read from the database (NoAttr), or the object on which
\* create_or_update_tp_order has assigned current_tp_price
ExitInit ==
  /\ CoreIdle
  /\ boot = NULL /\ rec = NULL /\ managers = NULL /\ calc = NULL
  /\ recent_shift = FALSE
  /\ \E active \in BOOLEAN, tp \in {NoAttr, ExitTpPrice}, free \in {0, 300} :
       trail = [cycle |-> [trailing_active |-> active, avg_price |-> ExitAvgPrice,
                           current_tp_price |-> tp, current_tp_order_id |-> 1,
                           max_price_tracked |-> ExitTpPrice,
                           emergency_exit |-> FALSE,
                           emergency_exit_reason |-> "None",
                           emergency_exit_time |-> FALSE],
                price_history |-> <<>>,
                ex |-> [tp_status |-> "open", free |-> free, locked |-> ExitAmount,
                        sold |-> <<>>],
                ticks |-> 0, last |-> ExitNoCall]

\* one call of monitor_emergency_exit(cycle, current_price, session)
ExitTick(current_price, in) ==
  /\ trail.ticks < MaxTicks
  /\ LET r == MonitorEmergencyExit(trail, current_price, in)
     IN trail' = [trail EXCEPT
                    !.price_history = r.price_history,
                    !.cycle = r.cycle,
                    !.ex = r.ex,
                    !.ticks = @ + 1,
                    !.last = [called |-> TRUE, current_price |-> current_price,
                              before |-> <<trail.cycle>>,
                              free |-> IF trail.ex.tp_status = "open" /\ in.cancel_ok
                                       THEN trail.ex.free + trail.ex.locked
                                       ELSE trail.ex.free,
                              dropped |-> DetectRapidDrop(
                                            AddPrice(trail.price_history, current_price)),
                              below |-> /\ trail.cycle.current_tp_price # NoAttr
                                        /\ current_price * 1000 <
                                             CalculateMinProfitPrice(trail.cycle) * 995,
                              raised |-> r.raised, success |-> r.success,
                              sell |-> r.sell]]
  /\ UNCHANGED <<core, boot, rec, managers, calc, recent_shift>>

\* the TP order fills on the exchange
ExitTpFills ==
  /\ trail.ex.tp_status = "open"
  /\ trail' = [trail EXCEPT !.ex.tp_status = "closed", !.ex.locked = 0,
                            !.last = ExitNoCall]
  /\ UNCHANGED <<core, boot, rec, managers, calc, recent_shift>>

ExitNext ==
  \/ \E p \in ExitPrices, in \in ExitInputs : ExitTick(p, in)
  \/ ExitTpFills

ExitSpec == ExitInit /\ [][ExitNext]_vars

\* the last call was made with trailing active on a tick that is a rapid drop
\* or is below 0.995 of the minimum-profit price
DumpTick ==
  /\ trail.last.called
  /\ trail.last.before[1].trailing_active
  /\ trail.last.dropped \/ trail.last.below

\* C32: with trailing active, a tick that is a rapid drop or is below 0.995
\* of the minimum-profit price sells the free base at market when there is
\* any; emergency_exit with reason and time is set when the market sell was
\* placed, and the cycle is as before when it was not
C32_DumpSellsAndRecords ==
  trail.last.called =>
    /\ (DumpTick /\ trail.last.free > 0) => trail.last.sell # "none"
    /\ trail.last.sell # "none" => DumpTick
    /\ trail.last.sell = "placed" =>
          /\ trail.cycle.emergency_exit
          /\ trail.cycle.emergency_exit_reason # "None"
          /\ trail.cycle.emergency_exit_time
          /\ trail.ex.free = 0
    /\ trail.last.sell # "placed" => trail.cycle = trail.last.before[1]

\* the same for a cycle object that has the attribute current_tp_price
C32_WithTpPriceAttribute ==
  trail.cycle.current_tp_price # NoAttr => C32_DumpSellsAndRecords


\* ================================================ partial fills
\* _watch_orders_loop on the order updates the exchange delivers, partial
\* fills included, one update handled after the other.

UpdateStatuses == {"open", "partially_filled", "closed"}
FilledParts == {0, 500, 995, 1000}      \* filled, in thousandths of the amount

\* the exchange accepts every call of the handler; the fee is charged in base
PartInputs ==
  [fee : {StartupFee}, avail : {"exact"}, cancel_ok : {TRUE},
   tp_ok : {TRUE}, next_ok : {TRUE}]

\* the update of order x with the given status and filled part
OrderUpdate(ex, x, status, part) ==
  LET filled == (ex[x].amount * part) \div 1000
  IN [id |-> x, status |-> status, filled |-> filled, amount |-> ex[x].amount,
      remaining |-> ex[x].amount - filled, price |-> ex[x].price]

\* the updates the exchange can deliver for order x: the complete fill of a
\* closed order; for an open order nothing filled, half of it, or 99.5 % of it
Deliverable(ex, x, status, part) ==
  \/ ex[x].status = "closed" /\ status = "closed" /\ part = 1000
  \/ ex[x].status = "open" /\ status # "closed" /\ part < 1000

\* _watch_orders_loop, lines 86-97: the update goes to _process_order_as_trade
TreatedAsFill(order) ==
  \/ order.status \in {"closed", "filled"}
  \/ /\ order.filled > 0
     /\ \/ order.filled * 100 >= order.amount * 99
        \/ order.remaining * 100 <= order.amount
  \/ order.status \in {"partially_filled", "partial"} /\ order.filled > 0

\* _process_order_as_trade, lines 129-147: the dict handed to the handler
ProcessUpdateAsTrade(order, fee) ==
  LET filled_amount == IF order.filled # 0 THEN order.filled ELSE order.amount
      avg_price == order.price
  IN [id |-> order.id, amount |-> filled_amount, price |-> avg_price,
      cost |-> (filled_amount * avg_price) \div BaseScale, fee |-> fee]

\* the update reports a fill of less than 0.99 of the amount of an order
\* that is neither closed nor filled
SmallPartial(order) ==
  /\ order.status \notin {"closed", "filled"}
  /\ order.filled > 0
  /\ order.filled * 100 < order.amount * 99

\* one pass of the loop body for one update of order x
PartUpdate(x, status, part, in) ==
  /\ act # "tp_closed"
  /\ x \in 1..Len(exch)
  /\ Deliverable(exch, x, status, part)
  /\ \E row \in RowByXid(db, x) :
       LET order == OrderUpdate(exch, x, status, part)
       IN
       IF ~TreatedAsFill(order) \/ row.status = "FILLED"
       THEN /\ act' = IF SmallPartial(order) THEN "small_partial" ELSE "update_skipped"
            /\ UNCHANGED <<db, exch>>
       ELSE LET ev == ProcessUpdateAsTrade(order, in.fee)
            IN IF row.order_type = "BUY_SAFETY"
               THEN LET r == HandleBuyFill(db, exch, row, ev, in)
                    IN /\ Len(r.exch) <= SeqMaxXid
                       /\ db' = r.db
                       /\ exch' = IF r.raised THEN r.exch ELSE Handled(r.exch, x)
                       /\ act' = IF SmallPartial(order) THEN "small_partial"
                                 ELSE IF r.raised THEN "raised" ELSE r.tp
               ELSE LET r == HandleTpFill(db, exch, row, ev, in)
                    IN /\ db' = r.db
                       /\ exch' = Handled(r.exch, x)
                       /\ act' = "tp_closed"
  /\ UNCHANGED <<registry, mgrs>>
  /\ UNCHANGED aside

PartNext ==
  \/ \E f \in SeqFreeQuotes, p \in SeqPrices : SeqStart(f, p)
  \/ \E x \in 1..SeqMaxXid : SeqExFill(x)
  \/ \E x \in 1..SeqMaxXid, status \in UpdateStatuses, part \in FilledParts,
        in \in PartInputs : PartUpdate(x, status, part, in)
  \/ \E f \in SeqFreeQuotes, p \in SeqPrices, a \in BOOLEAN : SeqRestart(f, p, a)

PartSpec == Init /\ [][PartNext]_vars

\* C33: an update that reports a fill of less than 0.99 of the amount of an
\* order that is not closed changes neither the order rows nor the cycles
C33_SmallPartialChangesNothing ==
  [][act' = "small_partial" => db' = db]_vars


\* ================================================ the supervisor's loops
\* One BinanceWebsocketManager: run_forever, its order loop and its ticker
\* loop as two coroutines, and stop. exchange counts the ccxt objects made by
\* connect (0: None); a loop awaits the object that was current when it
\* began to wait. Statements without an await between them are one step.

Loops == {"orders", "price"}
PauseSeconds == 5        \* asyncio.sleep(5) of both except blocks
MaxConnects == 3         \* calls of connect in one behaviour
MaxEvents == 2           \* events counted per loop

\* BinanceWebsocketManager.connect
Connect(s) ==
  [s EXCEPT !.exchange = @ + 1, !.is_running = TRUE]

\* the head of the loop: `while self._is_running`, the connect when there is
\* no exchange, then the await of watch_orders / watch_ticker
LoopHead(s, l) ==
  IF ~s.is_running THEN [s EXCEPT !.loops[l].pc = "ended"]
  ELSE LET s1 == IF s.exchange = 0 THEN Connect(s) ELSE s
       IN [s1 EXCEPT !.loops[l].pc = "watching", !.loops[l].on = s1.exchange]

\* variant: the loop ends after the pause
AfterPauseEnds(s, l) == [s EXCEPT !.loops[l].pc = "ended"]

\* the except block after asyncio.sleep(5): connect while _is_running, then
\* the head of the loop again
AfterPause(s, l) ==
  LET s1 == IF s.is_running THEN Connect(s) ELSE s
      s2 == [s1 EXCEPT !.loops[l].paused = PauseSeconds,
                       !.loops[l].reconnected = s.is_running]
  IN LoopHead(s2, l)

\* the supervisor as constructed
LoopInit ==
  /\ CoreIdle
  /\ boot = NULL /\ rec = NULL /\ calc = NULL /\ trail = NULL
  /\ recent_shift = FALSE
  /\ managers = [is_running |-> FALSE, exchange |-> 0, closed |-> {},
                 stop_called |-> FALSE, started |-> FALSE,
                 loops |-> [l \in Loops |->
                              [pc |-> "new", on |-> 0, events |-> 0, raised |-> 0,
                               paused |-> 0, reconnected |-> FALSE, resumed |-> 0]]]

\* run_forever: connect, then both loops reach their first await
RunForever ==
  /\ ~managers.started
  /\ managers' = LoopHead(LoopHead([Connect(managers) EXCEPT !.started = TRUE],
                                   "orders"), "price")
  /\ UNCHANGED <<core, boot, rec, calc, trail, recent_shift>>

\* the awaited stream delivers; the loop body (the handler of the order
\* updates, or the price cache and _check_grid_shift) returns or raises
LoopEvent(l, handler_ok) ==
  /\ managers.loops[l].pc = "watching"
  /\ managers.loops[l].on \notin managers.closed
  /\ IF handler_ok
     THEN managers' =
            LoopHead([managers EXCEPT
                        !.loops[l].events = IF @ < MaxEvents THEN @ + 1 ELSE @,
                        !.loops[l].resumed =
                           IF managers.loops[l].raised > 0 /\ @ < MaxEvents
                           THEN @ + 1 ELSE @], l)
     ELSE /\ managers.exchange < MaxConnects
          /\ managers' = [managers EXCEPT !.loops[l].pc = "sleeping",
                                          !.loops[l].raised = @ + 1]
  /\ UNCHANGED <<core, boot, rec, calc, trail, recent_shift>>

\* the awaited stream raises: a network error, or its exchange was closed
LoopStreamError(l) ==
  /\ managers.loops[l].pc = "watching"
  /\ \/ managers.loops[l].on \in managers.closed
     \/ managers.exchange < MaxConnects
  /\ managers' = [managers EXCEPT !.loops[l].pc = "sleeping",
                                  !.loops[l].raised = @ + 1]
  /\ UNCHANGED <<core, boot, rec, calc, trail, recent_shift>>

\* asyncio.sleep(5) returns
LoopWake(l) ==
  /\ managers.loops[l].pc = "sleeping"
  /\ managers' = AfterPause(managers, l)
  /\ UNCHANGED <<core, boot, rec, calc, trail, recent_shift>>

\* BinanceWebsocketManager.stop
LoopStop ==
  /\ ~managers.stop_called
  /\ managers' = [managers EXCEPT
                    !.is_running = FALSE, !.stop_called = TRUE,
                    !.closed = IF managers.exchange # 0
                               THEN @ \cup {managers.exchange} ELSE @]
  /\ UNCHANGED <<core, boot, rec, calc, trail, recent_shift>>

LoopNext ==
  \/ RunForever
  \/ \E l \in Loops, k \in BOOLEAN : LoopEvent(l, k)
  \/ \E l \in Loops : LoopStreamError(l)
  \/ \E l \in Loops : LoopWake(l)
  \/ LoopStop

LoopSpec == LoopInit /\ [][LoopNext]_vars

\* the event loop resumes every coroutine whose sleep is over
LoopFairSpec == LoopSpec /\ \A l \in Loops : WF_vars(LoopWake(l))

\* C34: while stop has not been called, a loop that has raised pauses 5 s,
\* reconnects and waits for events again, and no loop ends
C34_LoopsSurviveExceptions ==
  /\ \A l \in Loops :
       (managers.loops[l].pc = "sleeping" /\ ~managers.stop_called)
          ~> (managers.loops[l].pc = "watching" \/ managers.stop_called)
  /\ [](\A l \in Loops : managers.loops[l].pc = "ended" => managers.stop_called)
  /\ [][\A l \in Loops :
          (managers.loops[l].pc = "sleeping" /\ managers'.loops[l].pc = "watching"
             /\ ~managers.stop_called)
          => /\ managers'.loops[l].paused = PauseSeconds
             /\ managers'.exchange = managers.exchange + 1
             /\ managers'.loops[l].on = managers'.exchange]_vars

\* a loop that raised has reconnected and consumed an event, unstopped
C34_ResumedAfterException ==
  /\ ~managers.stop_called
  /\ \E l \in Loops : /\ managers.loops[l].resumed > 0
                      /\ managers.loops[l].reconnected
                      /\ managers.loops[l].pc = "watching"


\* ------------------------------------------------- orders the database knows
\* no supervisor is between the SELECT and the commit of a handler
NoHandlerRunning ==
  \A m \in Mgrs : mgrs[m].opc = "idle" /\ mgrs[m].tpc = "idle"

\* exchange order x is found by handle_filled_order: by a row with its id,
\* or as a cycle's current_tp_order_id
KnownToDb(x) ==
  \/ RowByXid(db, x) # {}
  \/ \E c \in 1..Len(db.cycles) : db.cycles[c].current_tp_order_id = x

\* C35: when no handler is running, every order the bot placed that is open
\* or filled on the exchange has a row with its exchange id or is a cycle's
\* current_tp_order_id in the committed state
C35_PlacedOrdersAreRecorded ==
  NoHandlerRunning =>
    \A x \in 1..Len(exch) : exch[x].status \in {"open", "closed"} => KnownToDb(x)


\* ------------------------------------------------- the TP pointer
\* C36: the current_tp_order_id of an OPEN cycle, when set, is the exchange id
\* of an ACTIVE SELL_TP row of that cycle
C36_TpPointerOnActiveRow ==
  \A c \in OpenCycles(db) :
     db.cycles[c].current_tp_order_id # NULL =>
       \E o \in db.orders : /\ o.cycle = c
                            /\ o.xid = db.cycles[c].current_tp_order_id
                            /\ o.order_type = "SELL_TP"
                            /\ o.status = "ACTIVE"


\* ------------------------------------------------- a closed cycle is final
\* the step places an order on the exchange for cycle c
PlacesFor(c) ==
  \E y \in (Len(exch) + 1)..Len(exch') :
     \E o \in RowByXid(db, exch'[y].cause) : o.cycle = c

\* C37: no step changes total_base_qty, total_quote_spent, avg_price or
\* profit_usdt of a CLOSED cycle or places an order for it
C37_ClosedCycleIsFinal ==
  [][\A c \in 1..Len(db.cycles) :
       db.cycles[c].status = "CLOSED" =>
         /\ c <= Len(db'.cycles)
         /\ db'.cycles[c].total_base_qty = db.cycles[c].total_base_qty
         /\ db'.cycles[c].total_quote_spent = db.cycles[c].total_quote_spent
         /\ db'.cycles[c].avg_price = db.cycles[c].avg_price
         /\ db'.cycles[c].profit_usdt = db.cycles[c].profit_usdt
         /\ ~PlacesFor(c)]_vars


\* ------------------------------------------------- an active config is watched
\* C38: when the config is active and no handler, restart or route is under
\* way, a running supervisor is registered for it
C38_ActiveConfigHasSupervisor ==
  (db.active /\ NoHandlerRunning) =>
     (registry # NULL /\ mgrs[registry].running)


\* ================================================ the amount of the TP
\* _handle_buy_fill from the balance validation to the create_order of the
\* SELL_TP, applied to free balances, expected quantities and accumulated
\* dust drawn from bounded sets; amounts in 1/10000 coin, Step = 100.

FreeBaseInputs == {0, 4997, 5000, 5300, 5497, 5600, 11594}
ExpectedInputs == {5000, 5497, 11594}         \* cycle.total_base_qty
DustInputs == {0, 3, 50, 97}                  \* cycle.accumulated_dust

DustInit ==
  /\ CoreIdle
  /\ boot = NULL /\ rec = NULL /\ managers = NULL /\ trail = NULL
  /\ recent_shift = FALSE
  /\ \E available \in FreeBaseInputs, expected \in ExpectedInputs,
        dust \in DustInputs :
       calc = [fn |-> "tp_amount", pc |-> "call", available_base |-> available,
               expected_amount |-> expected, accumulated_dust |-> dust]

\* lines 149-251 and 308-314: the early returns of the balance validation,
\* the dust added, the truncation, and the amount handed to create_order
TpAmount ==
  /\ calc.fn = "tp_amount" /\ calc.pc = "call"
  /\ LET amount_to_sell == AmountToSell(calc.available_base, calc.expected_amount)
         total_with_dust == amount_to_sell + calc.accumulated_dust
         final_amount == TruncateToPrecision(total_with_dust)
         returned == amount_to_sell <= 0 \/ final_amount <= 0
     IN calc' = [fn |-> "tp_amount", pc |-> "done",
                 available_base |-> calc.available_base,
                 expected_amount |-> calc.expected_amount,
                 accumulated_dust |-> calc.accumulated_dust,
                 returned |-> returned,
                 final_amount |-> IF returned THEN 0 ELSE final_amount,
                 new_dust |-> IF amount_to_sell <= 0 THEN calc.accumulated_dust
                              ELSE total_with_dust - final_amount]
  /\ UNCHANGED <<core, boot, rec, managers, trail, recent_shift>>

DustNext == TpAmount

DustSpec == DustInit /\ [][DustNext]_vars

\* C39: the amount of the SELL_TP handed to create_order is at most the free
\* base balance the handler fetched
C39_TpAmountWithinBalance ==
  (calc.pc = "done" /\ ~calc.returned) => calc.final_amount <= calc.available_base


====
